---- MODULE Spec2Model ----
(***************************************************************************)
(* The session store of the browser editor (edit configuration, undo/redo  *)
(* stacks, debounced gesture commit) and the editor components that call   *)
(* it (timeline, properties panel, transition popover, annotation          *)
(* overlay).                                                               *)
(*                                                                         *)
(* Units.  Source/output times are whole tenths of a second.  A zoom scale *)
(* is in hundredths (115 is 1.15).  A zoom anchor is a whole number of     *)
(* 1/AnchorDen of the frame, so that 0.5/scale is exact for every scale    *)
(* the model uses.  A transition duration is in steps of the slider        *)
(* (0.05 s).  Floating-point rounding is not modelled.                     *)
(***************************************************************************)
EXTENDS Integers, Sequences, FiniteSets, TLC

VARIABLES
    editConfig,         \* EditorState.editConfig (Null before initialize)
    editHistory,        \* EditorState.editHistory, the undo stack, oldest first
    editFuture,         \* EditorState.editFuture, the redo stack, next first
    selectedElement,    \* EditorState.selectedElement
    isDirty,            \* EditorState.isDirty
    clip,               \* EditorState.clip (Null, or the loaded clip)
    clipStart,          \* EditorState.clipStart
    clipEnd,            \* EditorState.clipEnd
    _debounceTimer,     \* module-level timer handle: Null, or Armed
    _debounceSnapshot,  \* module-level pre-gesture snapshot: Null, or a configuration
    annDrag,            \* AnnotationOverlay: Null, or the annotation whose drag listeners are attached
    clock,              \* Date.now(), read when an id is generated
    timelineZoom,       \* EditorState.timelineZoom, pixels per second
    timelineScroll,     \* EditorState.timelineScroll
    isPlaying,          \* EditorState.isPlaying
    currentTime,        \* EditorState.currentTime, the output time last published
    totalDuration,      \* EditorState.totalDuration, 0 until an engine has published
    useProxy,           \* EditorState.useProxy
    mounted,            \* VideoPreview: is the component mounted?
    video,              \* VideoPreview: the <video> element (attached to the
                        \* ref, src, currentTime relative to the clip, paused)
    engineRef,          \* VideoPreview: engineRef.current, Null or the engine's index
    engines,            \* every PlaybackEngine constructed so far
    initDeps,           \* VideoPreview: dependencies of the last run of the init effect
    updateDeps,         \* VideoPreview: dependencies of the last run of the update effect
    isSaving,           \* EditorState.isSaving
    lastSavedAt,        \* EditorState.lastSavedAt: Null, or the time of markSaved
    saveTimerRef,       \* EditorPage: Null, or the pending auto-save timeout with
                        \* the configuration its callback closes over
    saveDeps,           \* EditorPage: isDirty and editConfig when the auto-save
                        \* effect last ran
    saveRequests,       \* the updateClip calls awaited by timeout callbacks
    consoleErrors,      \* number of "Auto-save failed" lines on the console
    persisted,          \* Null, or the configuration last written to the clip
                        \* document by updateClip
    probe,              \* Null, or the arguments and results of time-map calls
    project,            \* backend: the project document (status, failReason,
                        \* processing.modalJobId with 0 for none)
    invocations,        \* backend: the invocations of the cloud functions, each
                        \* with the await it has reached
    pipelineCalls,      \* backend: the calls of triggerModalPipeline, by invocation
    page,               \* EditorPage: Null when no editor page is mounted, or the
                        \* clipId of the route it was opened with and its loading flag
    loads,              \* EditorPage: the snapshot callbacks that found the store
                        \* empty and are awaiting their fetches, with their clipData
    dragState,          \* Timeline: Null when idle, or the drag under way
    dragStartXRef,      \* Timeline: clientX of the pointer when it went down
    dragPreview,        \* Timeline: Null, or dragPreviewTime with snappedPoint
                        \* (snappedPoint is the time when snapped, null when not)
    lastOp,             \* history variable: the last operation performed
    run,                \* history variable: the current run of debounced updates
    log                 \* history variable: edits / undos / redos since initialize

vars == <<editConfig, editHistory, editFuture, selectedElement, isDirty, clip,
          clipStart, clipEnd, _debounceTimer, _debounceSnapshot, annDrag,
          clock, timelineZoom, timelineScroll, isPlaying, currentTime, totalDuration,
          useProxy, mounted, video, engineRef, engines, initDeps, updateDeps, isSaving,
          lastSavedAt, saveTimerRef, saveDeps, saveRequests, consoleErrors, persisted,
          probe,
          project, invocations, pipelineCalls, page, loads,
          dragState,
          dragStartXRef, dragPreview, lastOp, run, log>>

storeVars == <<editConfig, editHistory, editFuture, selectedElement, isDirty,
               clip, clipStart, clipEnd>>

\* The view fields of the store
viewVars == <<timelineZoom, timelineScroll>>

\* The playback fields of the store
playVars == <<isPlaying, currentTime, totalDuration>>

\* The local state of the VideoPreview component, its element and its engines
previewLocal == <<mounted, video, engineRef, engines, initDeps, updateDeps>>

\* The preview and the store field that chooses its source
previewVars == <<useProxy, previewLocal>>

\* The local state of the Timeline component
dragVars == <<dragState, dragStartXRef, dragPreview>>

\* Auto-save: the store's flags and the page's timer and request
saveVars == <<isSaving, lastSavedAt, saveTimerRef, saveDeps, saveRequests, consoleErrors,
              persisted>>

\* The project document and the cloud functions
backend == <<project, invocations, pipelineCalls>>

\* The editor page's route and the snapshot callbacks it has under way
pageVars == <<page, loads>>

\* What the store and the editor's components never touch
outside == <<probe, backend, pageVars>>

\* What a call of the store leaves alone besides the Timeline's local state
offstage == <<viewVars, playVars, saveVars, outside, previewVars>>

\* What an edit of the configuration, an undo, a redo or a selection leaves
\* alone when it is not made by a mouse handler of the Timeline
aside == <<offstage, dragVars>>

-----------------------------------------------------------------------------
(* Program constants *)

MAX_HISTORY == 50

-----------------------------------------------------------------------------
(* Bounds of the model *)

\* Discrete edits and gesture updates stop once the undo stack is this long
\* (short sessions, every kind of input).
MaxDepth == 3
\* The same for the sessions of continuous edits and of zooms.
BriefDepth == 2
\* Ids are generated while the clock is below this.
MaxClock == 12
\* Words of the transcript.
NumWords == 52
\* In the long session, sliders are touched once the undo stack is this long.
LateGestureLen == 49

-----------------------------------------------------------------------------
(* Values *)

Null == [null |-> TRUE]
Armed == [armed |-> TRUE]

\* Denominator of zoom anchors: 0.5/scale is a whole number of 1/AnchorDen for
\* the scales 1.00, 1.15, 1.50 and 2.00, and so is every 0.01.
AnchorDen == 69 * 100

Min(a, b) == IF a < b THEN a ELSE b
Max(a, b) == IF a > b THEN a ELSE b

\* Array.prototype.slice(-n)
SliceLast(s, n) == IF Len(s) <= n THEN s ELSE SubSeq(s, Len(s) - n + 1, Len(s))

\* Array.prototype.slice(0, -1)
DropLast(s) == SubSeq(s, 1, Len(s) - 1)

Range(s) == {s[i] : i \in 1..Len(s)}

\* Array.prototype.filter / map
Filter(s, keep(_)) == SelectSeq(s, keep)

Map(s, f(_)) == [i \in 1..Len(s) |-> f(s[i])]

\* { ...obj, ...changes }: the fields of changes override those of obj
Merge(obj, changes) ==
    [k \in (DOMAIN obj) \cup (DOMAIN changes) |->
        IF k \in DOMAIN changes THEN changes[k] ELSE obj[k]]

-----------------------------------------------------------------------------
(* lib/editor/segments: the segment editing library the store imports *)

\* Index of the segment with this id, 0 when there is none
SegIndex(segments, id) ==
    IF \E i \in 1..Len(segments) : segments[i].id = id
    THEN CHOOSE i \in 1..Len(segments) : segments[i].id = id
    ELSE 0

\* Minimum segment duration (0.1 s): sourceEnd > sourceStart + MinSegment
MinSegment == 1

\* Variant of splitSegment that puts the second half at the end of the list
splitSegAtEnd(segments, id, atSourceTime, newId) ==
    LET i == SegIndex(segments, id) IN
    IF i = 0 THEN segments
    ELSE LET s == segments[i] IN
         IF ~(s.sourceStart < atSourceTime /\ atSourceTime < s.sourceEnd)
         THEN segments
         ELSE SubSeq(segments, 1, i - 1)
              \o << [s EXCEPT !.sourceEnd = atSourceTime] >>
              \o SubSeq(segments, i + 1, Len(segments))
              \o << [id |-> newId, sourceStart |-> atSourceTime,
                     sourceEnd |-> s.sourceEnd, transition |-> "none",
                     transitionDuration |-> 0] >>

\* splitSegment(segments, id, atSourceTime): two contiguous halves in place of
\* the segment; the input unchanged unless atSourceTime is strictly inside.
\* The first half keeps the id and the incoming transition, the second half
\* gets a new id (newId) and no transition.
splitSeg(segments, id, atSourceTime, newId) ==
    LET i == SegIndex(segments, id) IN
    IF i = 0 THEN segments
    ELSE LET s == segments[i] IN
         IF ~(s.sourceStart < atSourceTime /\ atSourceTime < s.sourceEnd)
         THEN segments
         ELSE SubSeq(segments, 1, i - 1)
              \o << [s EXCEPT !.sourceEnd = atSourceTime],
                    [id |-> newId, sourceStart |-> atSourceTime,
                     sourceEnd |-> s.sourceEnd, transition |-> "none",
                     transitionDuration |-> 0] >>
              \o SubSeq(segments, i + 1, Len(segments))

\* deleteSegment(segments, id): list-local removal; keeping the last segment
\* is the caller's business.
deleteSeg(segments, id) == Filter(segments, LAMBDA s : s.id # id)

\* adjustSegmentEdge(segments, id, edge, newTime): moves one edge, rejecting a
\* value that would break the minimum duration.
adjustEdge(segments, id, edge, newTime) ==
    LET i == SegIndex(segments, id) IN
    IF i = 0 THEN segments
    ELSE LET s == segments[i]
             moved == IF edge = "start" THEN [s EXCEPT !.sourceStart = newTime]
                      ELSE [s EXCEPT !.sourceEnd = newTime]
         IN IF moved.sourceStart >= 0 /\ moved.sourceEnd > moved.sourceStart + MinSegment
            THEN [segments EXCEPT ![i] = moved]
            ELSE segments

\* The kept source ranges in source order
RECURSIVE SortBySourceStart(_)
SortBySourceStart(segments) ==
    IF segments = <<>> THEN <<>>
    ELSE LET i == CHOOSE k \in 1..Len(segments) :
                    \A j \in 1..Len(segments) :
                        \/ segments[k].sourceStart < segments[j].sourceStart
                        \/ (segments[k].sourceStart = segments[j].sourceStart /\ k <= j)
         IN <<segments[i]>>
            \o SortBySourceStart(SubSeq(segments, 1, i - 1)
                                 \o SubSeq(segments, i + 1, Len(segments)))

\* Gaps of [from, clipDuration] that the sorted ranges leave uncovered
RECURSIVE GapsFrom(_, _, _)
GapsFrom(sorted, from, clipDuration) ==
    IF sorted = <<>>
    THEN IF from < clipDuration
         THEN << [start |-> from, end |-> clipDuration, reason |-> "manual"] >>
         ELSE <<>>
    ELSE LET s == Head(sorted)
             gap == IF s.sourceStart > from
                    THEN << [start |-> from, end |-> s.sourceStart, reason |-> "manual"] >>
                    ELSE <<>>
         IN gap \o GapsFrom(Tail(sorted), Max(from, s.sourceEnd), clipDuration)

\* segmentsToCuts(segments, clipDuration): the derived gap list
segmentsToCuts(segments, clipDuration) ==
    GapsFrom(SortBySourceStart(segments), 0, clipDuration)

\* Total output duration of a segment list (Timeline.segmentBlocks)
RECURSIVE TotalDuration(_)
TotalDuration(segments) ==
    IF segments = <<>> THEN 0
    ELSE (Head(segments).sourceEnd - Head(segments).sourceStart)
         + TotalDuration(Tail(segments))

-----------------------------------------------------------------------------
(* The time map: output positions from the segment list in array order      *)

\* outputStart of the i-th segment
OutputStart(segments, i) == TotalDuration(SubSeq(segments, 1, i - 1))

\* The first index, in array order, that satisfies a test; 0 when none does
FirstIndex(hits) == IF hits = {} THEN 0 ELSE CHOOSE i \in hits : \A j \in hits : i <= j

\* Variant of outputToSource that does not take the segment's outputStart off
outputToSourceUnshifted(segments, t) ==
    LET i == FirstIndex({k \in 1..Len(segments) :
                            /\ OutputStart(segments, k) <= t
                            /\ t < OutputStart(segments, k + 1)})
    IN IF segments = <<>> THEN 0
       ELSE IF i = 0 THEN segments[Len(segments)].sourceEnd
       ELSE segments[i].sourceStart + t

\* outputToSource(t): the segment whose [outputStart, outputStart + duration)
\* holds t; beyond the total duration, the end of the last segment
outputToSource(segments, t) ==
    LET i == FirstIndex({k \in 1..Len(segments) :
                            /\ OutputStart(segments, k) <= t
                            /\ t < OutputStart(segments, k + 1)})
    IN IF segments = <<>> THEN 0
       ELSE IF i = 0 THEN segments[Len(segments)].sourceEnd
       ELSE segments[i].sourceStart + (t - OutputStart(segments, i))

\* The segment that ends nearest before s
NearestPreceding(segments, s) ==
    LET before == {k \in 1..Len(segments) : segments[k].sourceEnd <= s}
    IN IF before = {} THEN 0
       ELSE CHOOSE k \in before :
                \A j \in before :
                    \/ segments[j].sourceEnd < segments[k].sourceEnd
                    \/ (segments[j].sourceEnd = segments[k].sourceEnd /\ k <= j)

\* Variant of sourceToOutput that gives the start of the timeline in a gap
sourceToOutputGapless(segments, s) ==
    LET i == FirstIndex({k \in 1..Len(segments) :
                            segments[k].sourceStart <= s /\ s <= segments[k].sourceEnd})
    IN IF i # 0 THEN OutputStart(segments, i) + (s - segments[i].sourceStart)
       ELSE 0

\* sourceToOutput(s): the segment whose [sourceStart, sourceEnd] holds s; in a
\* removed region, the output position of the end of the nearest preceding
\* segment
sourceToOutput(segments, s) ==
    LET i == FirstIndex({k \in 1..Len(segments) :
                            segments[k].sourceStart <= s /\ s <= segments[k].sourceEnd})
        p == NearestPreceding(segments, s)
    IN IF i # 0 THEN OutputStart(segments, i) + (s - segments[i].sourceStart)
       ELSE IF p # 0 THEN OutputStart(segments, p + 1)
       ELSE 0

-----------------------------------------------------------------------------
(* Store helpers *)

\* Variant of pushHistory that keeps one entry fewer
pushHistoryShort(state) ==
    IF state.editConfig = Null
    THEN [editHistory |-> state.editHistory, editFuture |-> state.editFuture]
    ELSE [editHistory |-> SliceLast(Append(state.editHistory, state.editConfig),
                                    MAX_HISTORY - 1),
          editFuture  |-> <<>>]

\* Variant of pushHistory that never cuts the stack
pushHistoryUncut(state) ==
    IF state.editConfig = Null
    THEN [editHistory |-> state.editHistory, editFuture |-> state.editFuture]
    ELSE [editHistory |-> Append(state.editHistory, state.editConfig),
          editFuture  |-> <<>>]

\* pushHistory(state): the current configuration appended to the undo stack,
\* the stack cut to its last MAX_HISTORY entries, the redo stack emptied
pushHistory(state) ==
    IF state.editConfig = Null
    THEN [editHistory |-> state.editHistory, editFuture |-> state.editFuture]
    ELSE [editHistory |-> SliceLast(Append(state.editHistory, state.editConfig), MAX_HISTORY),
          editFuture  |-> <<>>]

\* get(): the fields of the store that pushHistory reads
State == [editConfig |-> editConfig, editHistory |-> editHistory, editFuture |-> editFuture]

\* 0.5 / scale, in anchor units
HalfViewport(scale) == (AnchorDen * 50) \div scale

\* clampZoomAnchor(anchorX, anchorY, scale)
clampZoomAnchor(anchorX, anchorY, scale) ==
    LET half == HalfViewport(scale) IN
    [anchorX |-> Min(Max(anchorX, half), AnchorDen - half),
     anchorY |-> Min(Max(anchorY, half), AnchorDen - half)]

\* syncCutsFromSegments(config, clipDuration)
syncCutsFromSegments(config, clipDuration) ==
    [config EXCEPT !.cuts = segmentsToCuts(config.segments, clipDuration)]

-----------------------------------------------------------------------------
(* History variables *)

\* What lastOp records of an operation: its name, its kind ("init",
\* "discrete", "gesture", "fire", "undo", "redo", "ui"), the control or
\* element it came from, whether a gesture commit was pending when it ran,
\* whether the handler refused it (no store call made), whether the request
\* was structurally invalid, (for "fire") the length of the run committed,
\* and (for a slider) the position the slider was moved to.
Op(op, kind, ctl) ==
    [op |-> op, kind |-> kind, ctl |-> ctl,
     pending |-> (_debounceSnapshot # Null), refused |-> FALSE, invalid |-> FALSE,
     calls |-> 0, value |-> 0]

Impure == [impure |-> TRUE]
Broken == [broken |-> TRUE]
IsRun(r) == r # Null /\ r # Impure
IsLog(l) == l # Null /\ l # Broken

\* The run of debounced updates after an operation of this kind.  A run
\* starts with a debounced update made while no timer is pending and goes on
\* while debounced updates arrive before the timer fires; any other change
\* of the configuration or of the stacks in between makes it impure.
NextRun(kind) ==
    CASE kind = "gesture" ->
            IF _debounceTimer = Null
            THEN [pre |-> editConfig, hist |-> editHistory, calls |-> 1]
            ELSE IF IsRun(run) THEN [run EXCEPT !.calls = Min(@ + 1, 2)] ELSE Impure
      [] kind \in {"fire", "undo", "redo"} -> Null
      [] kind \in {"discrete", "init"} ->
            IF _debounceTimer = Null THEN Null ELSE Impure
      [] OTHER -> run

\* The log after an operation of this kind: n discrete edits since
\* initialize (from configuration c0 to cN), then u undos, then r redos; any
\* other order of operations, or a gesture, abandons the log.
NextLog(kind, newConfig) ==
    CASE kind = "init" ->
            [c0 |-> newConfig, cN |-> newConfig, n |-> 0, u |-> 0, r |-> 0]
      [] kind = "discrete" ->
            IF IsLog(log) /\ log.u = 0 /\ log.r = 0
            THEN [log EXCEPT !.n = @ + 1, !.cN = newConfig]
            ELSE Broken
      [] kind = "undo" ->
            IF IsLog(log) /\ log.r = 0 /\ log.u < log.n
            THEN [log EXCEPT !.u = @ + 1]
            ELSE Broken
      [] kind = "redo" ->
            IF IsLog(log) /\ log.u = log.n /\ log.r < log.n
            THEN [log EXCEPT !.r = @ + 1]
            ELSE Broken
      [] kind \in {"gesture", "fire"} -> Broken
      [] OTHER -> log

Did(op) ==
    /\ lastOp' = op
    /\ run' = NextRun(op.kind)
    /\ log' = NextLog(op.kind, editConfig')

-----------------------------------------------------------------------------
(* Input configurations *)

\* A clip's configuration as the pipeline wrote it: two kept ranges, the cut
\* between them with the reason the analysis gave, one zoom, one annotation.
PipelineConfig ==
    [segments |-> << [id |-> 1, sourceStart |-> 0, sourceEnd |-> 3,
                      transition |-> "hard", transitionDuration |-> 0],
                     [id |-> 2, sourceStart |-> 4, sourceEnd |-> 8,
                      transition |-> "crossfade", transitionDuration |-> 6] >>,
     cuts |-> << [start |-> 3, end |-> 4, reason |-> "silence"] >>,
     zooms |-> << [id |-> 3, time |-> 1, duration |-> 5, scale |-> 200,
                   anchorX |-> 1725, anchorY |-> 3450] >>,
     annotations |-> << [id |-> 4, x |-> 50, y |-> 50] >>,
     captions |-> [style |-> "hormozi"],
     captionOverrides |-> << >>]

\* The clips the editor can be opened with: id, source range, configuration
Clips == { [id |-> 1, startTime |-> 10, endTime |-> 18, editConfig |-> PipelineConfig,
            sourceVideoUrl |-> "source", proxyVideoUrl |-> "proxy"] }

-----------------------------------------------------------------------------
(* The store: initial state and operations *)

Fresh ==
    /\ editConfig = Null
    /\ editHistory = <<>>
    /\ editFuture = <<>>
    /\ selectedElement = Null
    /\ isDirty = FALSE
    /\ clip = Null
    /\ clipStart = 0
    /\ clipEnd = 0
    /\ _debounceTimer = Null
    /\ _debounceSnapshot = Null
    /\ annDrag = Null
    /\ clock = 10
    /\ timelineZoom = 50
    /\ timelineScroll = 0
    /\ isPlaying = FALSE
    /\ currentTime = 0
    /\ totalDuration = 0
    /\ useProxy = FALSE
    /\ mounted = TRUE
    /\ video = [attached |-> FALSE, src |-> Null, time |-> 0, paused |-> TRUE]
    /\ engineRef = Null
    /\ engines = <<>>
    /\ initDeps = Null
    /\ updateDeps = Null
    /\ isSaving = FALSE
    /\ lastSavedAt = Null
    /\ saveTimerRef = Null
    /\ saveDeps = [isDirty |-> FALSE, editConfig |-> Null]
    /\ saveRequests = <<>>
    /\ consoleErrors = 0
    /\ persisted = Null
    /\ dragState = Null
    /\ dragStartXRef = 0
    /\ dragPreview = Null
    /\ project = [status |-> "uploading", failReason |-> "", modalJobId |-> 0]
    /\ invocations = <<>>
    /\ pipelineCalls = <<>>
    /\ page = [clipId |-> 1, loading |-> TRUE]
    /\ loads = <<>>
    /\ lastOp = [op |-> "create", kind |-> "ui", ctl |-> "",
                 pending |-> FALSE, refused |-> FALSE, invalid |-> FALSE, calls |-> 0,
                 value |-> 0]
    /\ run = Null
    /\ log = Null

\* The state after construction
Init == Fresh /\ probe = Null

\* initialize({clip, ..., clipStart, clipEnd})
initialize(c) ==
    /\ clip' = c
    /\ clipStart' = c.startTime
    /\ clipEnd' = c.endTime
    /\ editConfig' = c.editConfig
    /\ editHistory' = <<>>
    /\ editFuture' = <<>>
    /\ selectedElement' = Null
    /\ isDirty' = FALSE
    /\ useProxy' = (c.proxyVideoUrl # "")
    /\ UNCHANGED <<_debounceTimer, _debounceSnapshot, annDrag, clock, viewVars, playVars,
                   saveVars, probe, backend, previewLocal, dragVars>>
    /\ Did(Op("initialize", "init", "page"))

\* The set({ editConfig: newConfig, ...historyUpdate, isDirty: true }) that
\* ends every discrete edit
SetWithHistory(newConfig, historyUpdate) ==
    /\ editConfig' = newConfig
    /\ editHistory' = historyUpdate.editHistory
    /\ editFuture' = historyUpdate.editFuture
    /\ isDirty' = TRUE

\* updateEditConfig(changes)
updateEditConfig(changes, op) ==
    /\ editConfig # Null
    /\ LET historyUpdate == pushHistory(State)
           clipDuration == clipEnd - clipStart
           merged == Merge(editConfig, changes)
           newConfig == IF "segments" \in DOMAIN changes
                        THEN syncCutsFromSegments(merged, clipDuration)
                        ELSE merged
       IN SetWithHistory(newConfig, historyUpdate)
    /\ UNCHANGED <<selectedElement, clip, clipStart, clipEnd,
                   _debounceTimer, _debounceSnapshot, annDrag, clock, aside>>
    /\ Did(op)

\* Variant of updateEditConfigDebounced that takes the snapshot at every call
updateEditConfigDebouncedResnap(changes, op) ==
    /\ editConfig # Null
    /\ _debounceSnapshot' = editConfig
    /\ LET clipDuration == clipEnd - clipStart
           merged == Merge(editConfig, changes)
           newConfig == IF "segments" \in DOMAIN changes
                        THEN syncCutsFromSegments(merged, clipDuration)
                        ELSE merged
       IN editConfig' = newConfig
    /\ _debounceTimer' = Armed
    /\ isDirty' = TRUE
    /\ UNCHANGED <<editHistory, editFuture, selectedElement, clip, clipStart,
                   clipEnd, annDrag, clock, aside>>
    /\ Did(op)

\* updateEditConfigDebounced(changes): the change is applied at once; the
\* pre-gesture snapshot is kept aside and the timer (re)started
updateEditConfigDebounced(changes, op) ==
    /\ editConfig # Null
    /\ _debounceSnapshot' = IF _debounceSnapshot = Null THEN editConfig
                            ELSE _debounceSnapshot
    /\ LET clipDuration == clipEnd - clipStart
           merged == Merge(editConfig, changes)
           newConfig == IF "segments" \in DOMAIN changes
                        THEN syncCutsFromSegments(merged, clipDuration)
                        ELSE merged
       IN editConfig' = newConfig
    /\ _debounceTimer' = Armed
    /\ isDirty' = TRUE
    /\ UNCHANGED <<editHistory, editFuture, selectedElement, clip, clipStart,
                   clipEnd, annDrag, clock, aside>>
    /\ Did(op)

\* The setTimeout callback of updateEditConfigDebounced, DEBOUNCE_MS after
\* the last debounced update
DebounceTimerFires ==
    /\ _debounceTimer # Null
    /\ IF _debounceSnapshot # Null /\ editConfig # Null
       THEN /\ editHistory' = SliceLast(Append(editHistory, _debounceSnapshot), MAX_HISTORY)
            /\ editFuture' = <<>>
       ELSE UNCHANGED <<editHistory, editFuture>>
    /\ _debounceSnapshot' = Null
    /\ _debounceTimer' = Null
    /\ UNCHANGED <<editConfig, selectedElement, isDirty, clip, clipStart,
                   clipEnd, annDrag, clock, aside>>
    /\ Did([Op("timer", "fire", "") EXCEPT !.calls = IF IsRun(run) THEN run.calls ELSE 0])

\* Variant of undo that drops a pending gesture instead of flushing it
undoUnflushed ==
    /\ _debounceTimer' = Null
    /\ _debounceSnapshot' = Null
    /\ IF editHistory = <<>> \/ editConfig = Null
       THEN UNCHANGED <<editConfig, editHistory, editFuture, isDirty>>
       ELSE /\ editConfig' = editHistory[Len(editHistory)]
            /\ editHistory' = DropLast(editHistory)
            /\ editFuture' = <<editConfig>> \o editFuture
            /\ isDirty' = TRUE
    /\ UNCHANGED <<selectedElement, clip, clipStart, clipEnd, annDrag, clock, aside>>
    /\ Did(Op("undo", "undo", "key"))

\* Variant of undo that also drops the selection, as initialize does
undoDeselecting ==
    LET flushed == IF _debounceSnapshot # Null
                   THEN [editHistory |-> SliceLast(Append(editHistory, _debounceSnapshot),
                                                   MAX_HISTORY),
                         editFuture |-> <<>>]
                   ELSE [editHistory |-> editHistory, editFuture |-> editFuture]
    IN /\ _debounceTimer' = Null
       /\ _debounceSnapshot' = Null
       /\ IF flushed.editHistory = <<>> \/ editConfig = Null
          THEN /\ editHistory' = flushed.editHistory
               /\ editFuture' = flushed.editFuture
               /\ UNCHANGED <<editConfig, isDirty>>
          ELSE /\ editConfig' = flushed.editHistory[Len(flushed.editHistory)]
               /\ editHistory' = DropLast(flushed.editHistory)
               /\ editFuture' = <<editConfig>> \o flushed.editFuture
               /\ isDirty' = TRUE
       /\ selectedElement' = Null
       /\ UNCHANGED <<clip, clipStart, clipEnd, annDrag, clock, aside>>
       /\ Did(Op("undo", "undo", "key"))

\* undo()
undo ==
    LET flushed == IF _debounceSnapshot # Null
                   THEN [editHistory |-> SliceLast(Append(editHistory, _debounceSnapshot),
                                                   MAX_HISTORY),
                         editFuture |-> <<>>]
                   ELSE [editHistory |-> editHistory, editFuture |-> editFuture]
    IN /\ _debounceTimer' = Null
       /\ _debounceSnapshot' = Null
       /\ IF flushed.editHistory = <<>> \/ editConfig = Null
          THEN /\ editHistory' = flushed.editHistory
               /\ editFuture' = flushed.editFuture
               /\ UNCHANGED <<editConfig, isDirty>>
          ELSE /\ editConfig' = flushed.editHistory[Len(flushed.editHistory)]
               /\ editHistory' = DropLast(flushed.editHistory)
               /\ editFuture' = <<editConfig>> \o flushed.editFuture
               /\ isDirty' = TRUE
       /\ UNCHANGED <<selectedElement, clip, clipStart, clipEnd, annDrag, clock, aside>>
       /\ Did(Op("undo", "undo", "key"))

\* redo()
redo ==
    /\ _debounceTimer' = Null
    /\ _debounceSnapshot' = IF _debounceTimer # Null THEN Null ELSE _debounceSnapshot
    /\ IF editFuture = <<>> \/ editConfig = Null
       THEN UNCHANGED <<editConfig, editHistory, editFuture, isDirty>>
       ELSE /\ editConfig' = Head(editFuture)
            /\ editHistory' = Append(editHistory, editConfig)
            /\ editFuture' = Tail(editFuture)
            /\ isDirty' = TRUE
    /\ UNCHANGED <<selectedElement, clip, clipStart, clipEnd, annDrag, clock, aside>>
    /\ Did(Op("redo", "redo", "key"))

\* selectElement(element), as any handler calls it
selectElementCall(element, op) ==
    /\ selectedElement' = element
    /\ UNCHANGED <<editConfig, editHistory, editFuture, isDirty, clip, clipStart,
                   clipEnd, _debounceTimer, _debounceSnapshot, annDrag, clock, offstage>>
    /\ Did(op)

\* selectElement(element), called by a handler that sets nothing itself
selectElement(element) ==
    /\ selectElementCall(element, Op("selectElement", "ui", ""))
    /\ UNCHANGED dragVars

\* What the view operations leave alone
ViewUnchanged == UNCHANGED <<editConfig, editHistory, editFuture, selectedElement,
                             isDirty, clip, clipStart, clipEnd, _debounceTimer,
                             _debounceSnapshot, annDrag, clock, playVars, saveVars,
                             outside, previewVars, dragVars>>

\* setTimelineZoom(zoom)
setTimelineZoom(zoom) ==
    /\ timelineZoom' = Max(10, Min(200, zoom))
    /\ UNCHANGED timelineScroll
    /\ ViewUnchanged
    /\ Did(Op("setTimelineZoom", "ui", ""))

\* setTimelineScroll(scroll)
setTimelineScroll(scroll) ==
    /\ timelineScroll' = Max(0, scroll)
    /\ UNCHANGED timelineZoom
    /\ ViewUnchanged
    /\ Did(Op("setTimelineScroll", "ui", ""))

-----------------------------------------------------------------------------
(* The store: segment operations *)

\* What the discrete store operations leave alone.  selectedElement is not in
\* the list: an operation that does not set it says so itself, and a handler
\* that calls selectElement(null) right after the operation sets it there.
CallUnchanged == UNCHANGED <<clip, clipStart, clipEnd, _debounceTimer,
                             _debounceSnapshot, annDrag, offstage>>

DiscreteUnchanged == CallUnchanged /\ UNCHANGED dragVars

\* Is atSourceTime strictly inside the segment with this id?
StrictlyInside(segments, id, atSourceTime) ==
    LET i == SegIndex(segments, id) IN
    /\ i # 0
    /\ segments[i].sourceStart < atSourceTime
    /\ atSourceTime < segments[i].sourceEnd

\* splitSegment(segmentId, atSourceTime)
splitSegment(segmentId, atSourceTime, op) ==
    /\ editConfig # Null
    /\ LET historyUpdate == pushHistory(State)
           newSegments == splitSeg(editConfig.segments, segmentId, atSourceTime, clock)
           clipDuration == clipEnd - clipStart
           newConfig == syncCutsFromSegments([editConfig EXCEPT !.segments = newSegments],
                                             clipDuration)
       IN SetWithHistory(newConfig, historyUpdate)
    /\ clock' = IF StrictlyInside(editConfig.segments, segmentId, atSourceTime)
                THEN clock + 1 ELSE clock
    /\ DiscreteUnchanged
    /\ Did([op EXCEPT !.invalid = ~StrictlyInside(editConfig.segments, segmentId, atSourceTime),
                      !.value = atSourceTime])

\* deleteSegment(segmentId)
deleteSegment(segmentId, op) ==
    /\ editConfig # Null
    /\ LET historyUpdate == pushHistory(State)
           newSegments == deleteSeg(editConfig.segments, segmentId)
           clipDuration == clipEnd - clipStart
           newConfig == syncCutsFromSegments([editConfig EXCEPT !.segments = newSegments],
                                             clipDuration)
       IN SetWithHistory(newConfig, historyUpdate)
    /\ UNCHANGED clock
    /\ DiscreteUnchanged
    /\ Did([op EXCEPT !.invalid = (Len(editConfig.segments) = 1
                                   /\ SegIndex(editConfig.segments, segmentId) # 0)])

\* adjustSegmentEdge(segmentId, edge, newTime), as any handler calls it
adjustSegmentEdgeCall(segmentId, edge, newTime, op) ==
    /\ editConfig # Null
    /\ LET historyUpdate == pushHistory(State)
           newSegments == adjustEdge(editConfig.segments, segmentId, edge, newTime)
           clipDuration == clipEnd - clipStart
           newConfig == syncCutsFromSegments([editConfig EXCEPT !.segments = newSegments],
                                             clipDuration)
       IN SetWithHistory(newConfig, historyUpdate)
    /\ UNCHANGED clock
    /\ CallUnchanged
    /\ Did(op)

\* adjustSegmentEdge(segmentId, edge, newTime), called by a handler that sets
\* nothing itself
adjustSegmentEdge(segmentId, edge, newTime, op) ==
    /\ adjustSegmentEdgeCall(segmentId, edge, newTime, op)
    /\ UNCHANGED dragVars

-----------------------------------------------------------------------------
(* The store: zoom operations *)

\* addZoom(time)
addZoom(time, op) ==
    /\ editConfig # Null
    /\ LET historyUpdate == pushHistory(State)
           anchor == clampZoomAnchor(AnchorDen \div 2, (AnchorDen * 2) \div 5, 115)
           newZoom == [id |-> clock, time |-> time, duration |-> 5, scale |-> 115,
                       anchorX |-> anchor.anchorX, anchorY |-> anchor.anchorY]
       IN /\ SetWithHistory([editConfig EXCEPT !.zooms = Append(@, newZoom)], historyUpdate)
          /\ selectedElement' = [type |-> "zoom", id |-> newZoom.id]
    /\ clock' = clock + 1
    /\ DiscreteUnchanged
    /\ Did(op)

\* updateZoom(zoomId, changes), as any handler calls it
updateZoomCall(zoomId, changes, op) ==
    /\ editConfig # Null
    /\ LET historyUpdate == pushHistory(State)
           zooms == Map(editConfig.zooms,
                        LAMBDA z : IF z.id # zoomId THEN z
                                   ELSE LET merged == Merge(z, changes)
                                            clamped == clampZoomAnchor(merged.anchorX,
                                                           merged.anchorY, merged.scale)
                                        IN Merge(merged, clamped))
       IN SetWithHistory([editConfig EXCEPT !.zooms = zooms], historyUpdate)
    /\ UNCHANGED clock
    /\ CallUnchanged
    /\ Did(op)

\* updateZoom(zoomId, changes), called by a handler that sets nothing itself
updateZoom(zoomId, changes, op) ==
    /\ updateZoomCall(zoomId, changes, op)
    /\ UNCHANGED dragVars

\* selectedElement after deleteZoom(id) / deleteAnnotation(id)
SelectionAfterDelete(id) ==
    IF selectedElement # Null /\ selectedElement.id = id THEN Null ELSE selectedElement

\* deleteZoom(zoomId); the selection is dropped when it is the deleted zoom
deleteZoom(zoomId, op) ==
    /\ editConfig # Null
    /\ LET historyUpdate == pushHistory(State)
           zooms == Filter(editConfig.zooms, LAMBDA z : z.id # zoomId)
       IN SetWithHistory([editConfig EXCEPT !.zooms = zooms], historyUpdate)
    /\ selectedElement' = SelectionAfterDelete(zoomId)
    /\ UNCHANGED clock
    /\ DiscreteUnchanged
    /\ Did(op)

-----------------------------------------------------------------------------
(* The store: caption and annotation operations *)

\* overrides[wordIndex], or the empty record when there is none
OverrideOf(overrides, wordIndex) ==
    IF wordIndex \in DOMAIN overrides THEN overrides[wordIndex] ELSE <<>>

\* !(existing?.flag)
NotFlag(existing, flag) == IF flag \in DOMAIN existing THEN ~existing[flag] ELSE TRUE

\* overrides[wordIndex] = value on a copy of overrides
SetOverride(overrides, wordIndex, value) ==
    [w \in (DOMAIN overrides) \cup {wordIndex} |->
        IF w = wordIndex THEN value ELSE overrides[w]]

\* toggleWordHighlight(wordIndex)
toggleWordHighlight(wordIndex, op) ==
    /\ editConfig # Null
    /\ LET historyUpdate == pushHistory(State)
           existing == OverrideOf(editConfig.captionOverrides, wordIndex)
           overrides == SetOverride(editConfig.captionOverrides, wordIndex,
                            Merge(existing, [highlight |-> NotFlag(existing, "highlight")]))
       IN SetWithHistory([editConfig EXCEPT !.captionOverrides = overrides], historyUpdate)
    /\ UNCHANGED <<selectedElement, clock>>
    /\ DiscreteUnchanged
    /\ Did(op)

\* hideWord(wordIndex)
hideWord(wordIndex, op) ==
    /\ editConfig # Null
    /\ LET historyUpdate == pushHistory(State)
           existing == OverrideOf(editConfig.captionOverrides, wordIndex)
           overrides == SetOverride(editConfig.captionOverrides, wordIndex,
                            Merge(existing, [hidden |-> NotFlag(existing, "hidden")]))
       IN SetWithHistory([editConfig EXCEPT !.captionOverrides = overrides], historyUpdate)
    /\ UNCHANGED <<selectedElement, clock>>
    /\ DiscreteUnchanged
    /\ Did(op)

\* updateAnnotation(id, changes)
updateAnnotation(id, changes, op) ==
    /\ editConfig # Null
    /\ LET historyUpdate == pushHistory(State)
           annotations == Map(editConfig.annotations,
                              LAMBDA a : IF a.id = id THEN Merge(a, changes) ELSE a)
       IN SetWithHistory([editConfig EXCEPT !.annotations = annotations], historyUpdate)
    /\ UNCHANGED <<selectedElement, clock>>
    /\ DiscreteUnchanged
    /\ Did(op)

\* deleteAnnotation(id)
deleteAnnotation(id, op) ==
    /\ editConfig # Null
    /\ LET historyUpdate == pushHistory(State)
           annotations == Filter(editConfig.annotations, LAMBDA a : a.id # id)
       IN SetWithHistory([editConfig EXCEPT !.annotations = annotations], historyUpdate)
    /\ selectedElement' = SelectionAfterDelete(id)
    /\ UNCHANGED clock
    /\ DiscreteUnchanged
    /\ Did(op)

-----------------------------------------------------------------------------
(* Editor components: selection *)

SegmentIds == IF editConfig = Null THEN {}
              ELSE {editConfig.segments[i].id : i \in 1..Len(editConfig.segments)}
ZoomIds == IF editConfig = Null THEN {}
           ELSE {editConfig.zooms[i].id : i \in 1..Len(editConfig.zooms)}
AnnotationIds == IF editConfig = Null THEN {}
                 ELSE {editConfig.annotations[i].id : i \in 1..Len(editConfig.annotations)}

\* The element of a list with this id (the caller knows there is one)
ById(list, id) == list[CHOOSE i \in 1..Len(list) : list[i].id = id]

Selected(type) == selectedElement # Null /\ selectedElement.type = type

\* The properties panel shows the selected element when it is in the configuration
PanelShowsSegment == Selected("segment") /\ selectedElement.id \in SegmentIds
PanelShowsZoom == Selected("zoom") /\ selectedElement.id \in ZoomIds
PanelShowsAnnotation == Selected("annotation") /\ selectedElement.id \in AnnotationIds

\* Timeline / AnnotationOverlay: a click on a segment, a zoom or an annotation
ClickElement(type, id) ==
    /\ \/ type = "segment" /\ id \in SegmentIds
       \/ type = "zoom" /\ id \in ZoomIds
       \/ type = "annotation" /\ id \in AnnotationIds
    /\ selectElement([type |-> type, id |-> id])

\* EditorPage keyboard shortcuts: Escape
EscapeKey == selectElement(Null)

\* A handler that returns without calling the store
Refuse(op) ==
    /\ UNCHANGED <<editConfig, editHistory, editFuture, selectedElement, isDirty, clip,
                   clipStart, clipEnd, _debounceTimer, _debounceSnapshot, annDrag, clock, aside>>
    /\ lastOp' = [op EXCEPT !.refused = TRUE]
    /\ UNCHANGED <<run, log>>

-----------------------------------------------------------------------------
(* Editor components: delete *)

\* Variant of KeyDelete that asks for the deletion whatever the segment count
KeyDeleteUnguarded ==
    /\ selectedElement # Null
    /\ \/ /\ selectedElement.type = "segment"
          /\ deleteSegment(selectedElement.id, Op("deleteSegment", "discrete", "key"))
          /\ selectedElement' = Null
       \/ /\ selectedElement.type = "zoom"
          /\ deleteZoom(selectedElement.id, Op("deleteZoom", "discrete", "key"))
          /\ selectedElement' = Null
       \/ /\ selectedElement.type = "annotation"
          /\ deleteAnnotation(selectedElement.id, Op("deleteAnnotation", "discrete", "key"))
          /\ selectedElement' = Null

\* Timeline.handleKeyDown: Delete / Backspace
KeyDelete ==
    /\ selectedElement # Null
    /\ \/ /\ selectedElement.type = "segment"
          /\ IF editConfig # Null /\ Len(editConfig.segments) > 1
             THEN /\ deleteSegment(selectedElement.id, Op("deleteSegment", "discrete", "key"))
                  /\ selectedElement' = Null
             ELSE Refuse(Op("deleteSegment", "ui", "key"))
       \/ /\ selectedElement.type = "zoom"
          /\ deleteZoom(selectedElement.id, Op("deleteZoom", "discrete", "key"))
          /\ selectedElement' = Null
       \/ /\ selectedElement.type = "annotation"
          /\ deleteAnnotation(selectedElement.id, Op("deleteAnnotation", "discrete", "key"))
          /\ selectedElement' = Null

\* Timeline.handleDeleteSelected: the toolbar button
ToolbarDelete ==
    /\ selectedElement # Null
    /\ \/ /\ selectedElement.type = "segment"
          /\ IF editConfig # Null /\ Len(editConfig.segments) > 1
             THEN /\ deleteSegment(selectedElement.id, Op("deleteSegment", "discrete", "toolbar"))
                  /\ selectedElement' = Null
             ELSE Refuse(Op("deleteSegment", "ui", "toolbar"))
       \/ /\ selectedElement.type = "zoom"
          /\ deleteZoom(selectedElement.id, Op("deleteZoom", "discrete", "toolbar"))
          /\ selectedElement' = Null
       \/ /\ selectedElement.type = "annotation"
          /\ deleteAnnotation(selectedElement.id, Op("deleteAnnotation", "discrete", "toolbar"))
          /\ selectedElement' = Null

\* SegmentProperties: the delete button is rendered only when canDelete
canDelete == (IF editConfig = Null THEN 0 ELSE Len(editConfig.segments)) > 1

PanelDeleteSegment ==
    /\ PanelShowsSegment
    /\ canDelete
    /\ deleteSegment(selectedElement.id, Op("deleteSegment", "discrete", "panel"))
    /\ selectedElement' = Null

\* ZoomProperties: the delete button
PanelDeleteZoom ==
    /\ PanelShowsZoom
    /\ deleteZoom(selectedElement.id, Op("deleteZoom", "discrete", "panel"))
    /\ selectedElement' = Null

-----------------------------------------------------------------------------
(* Editor components: split, edges, transitions *)

\* Variant of the loop that takes the playhead for an offset into the segment
\* it finds, without subtracting the segment's output start
RECURSIVE SegmentAtPlayheadUnshifted(_, _, _)
SegmentAtPlayheadUnshifted(segments, playhead, outputOffset) ==
    IF segments = <<>> THEN Null
    ELSE LET seg == Head(segments)
             duration == seg.sourceEnd - seg.sourceStart
         IN IF playhead >= outputOffset /\ playhead <= outputOffset + duration
            THEN [id |-> seg.id,
                  splitSourceTime |-> seg.sourceStart + playhead]
            ELSE SegmentAtPlayheadUnshifted(Tail(segments), playhead,
                                            outputOffset + duration)

\* The loop of handleSplitAtPlayhead: the first segment, in array order, whose
\* output range [outputOffset, outputOffset + duration] holds currentTime, and
\* the source time of the playhead in it; Null when there is none
RECURSIVE SegmentAtPlayhead(_, _, _)
SegmentAtPlayhead(segments, playhead, outputOffset) ==
    IF segments = <<>> THEN Null
    ELSE LET seg == Head(segments)
             duration == seg.sourceEnd - seg.sourceStart
         IN IF playhead >= outputOffset /\ playhead <= outputOffset + duration
            THEN [id |-> seg.id,
                  splitSourceTime |-> seg.sourceStart + (playhead - outputOffset)]
            ELSE SegmentAtPlayhead(Tail(segments), playhead, outputOffset + duration)

\* Timeline.handleSplitAtPlayhead (toolbar) with currentTime at playhead
SplitAtPlayhead(playhead) ==
    /\ editConfig # Null
    /\ LET hit == SegmentAtPlayhead(editConfig.segments, playhead, 0) IN
       /\ hit # Null
       /\ splitSegment(hit.id, hit.splitSourceTime, Op("splitSegment", "discrete", "toolbar"))
    /\ UNCHANGED selectedElement

\* EditorPage keyboard shortcuts: S
KeySplit(playhead) ==
    /\ editConfig # Null
    /\ LET hit == SegmentAtPlayhead(editConfig.segments, playhead, 0) IN
       /\ hit # Null
       /\ splitSegment(hit.id, hit.splitSourceTime, Op("splitSegment", "discrete", "key"))
    /\ UNCHANGED selectedElement

\* SegmentProperties: the start / end number inputs
PanelEdgeInput(edge, val) ==
    /\ PanelShowsSegment
    /\ adjustSegmentEdge(selectedElement.id, edge, val,
                         Op("adjustSegmentEdge", "discrete", "panel"))
    /\ UNCHANGED selectedElement

\* cfg.segments.map(s => s.id === id ? {...s, ...changes} : s)
WithSegment(segments, id, changes) ==
    Map(segments, LAMBDA s : IF s.id = id THEN Merge(s, changes) ELSE s)

NonTrivial(transition) == transition # "none" /\ transition # "hard"

\* SegmentProperties: the transition select
PanelTransitionSelect(transition) ==
    /\ PanelShowsSegment
    /\ updateEditConfig(
           [segments |-> WithSegment(editConfig.segments, selectedElement.id,
                                     [transition |-> transition])],
           Op("updateEditConfig", "discrete", "panel.transition"))

\* SegmentProperties: the transition duration slider (debounced)
PanelDurationSlider(value) ==
    /\ PanelShowsSegment
    /\ NonTrivial(ById(editConfig.segments, selectedElement.id).transition)
    /\ updateEditConfigDebounced(
           [segments |-> WithSegment(editConfig.segments, selectedElement.id,
                                     [transitionDuration |-> value])],
           [Op("updateEditConfigDebounced", "gesture", "panel.transitionDuration")
               EXCEPT !.value = value])

\* TransitionPopover.setTransition, the popover open on this segment
PopoverSetTransition(segmentId, transition) ==
    /\ segmentId \in SegmentIds
    /\ updateEditConfig(
           [segments |-> WithSegment(editConfig.segments, segmentId,
                                     [transition |-> transition])],
           Op("updateEditConfig", "discrete", "popover.transition"))

\* TransitionPopover.setDuration: the duration slider of the popover
PopoverSetDuration(segmentId, duration) ==
    /\ segmentId \in SegmentIds
    /\ NonTrivial(ById(editConfig.segments, segmentId).transition)
    /\ updateEditConfig(
           [segments |-> WithSegment(editConfig.segments, segmentId,
                                     [transitionDuration |-> duration])],
           [Op("updateEditConfig", "discrete", "popover.transitionDuration")
               EXCEPT !.value = duration])

\* EditConfigPanel.updateConfig(partial): onChange({...config, ...partial}),
\* which the page passes whole to updateEditConfig
EditConfigPanelChange(partial) ==
    /\ editConfig # Null
    /\ updateEditConfig(Merge(editConfig, partial),
                        Op("updateEditConfig", "discrete", "configPanel"))

-----------------------------------------------------------------------------
(* Editor components: zooms *)

\* The values of <input type="range" min max step>
SliderStops(min, max, step) == {min + k * step : k \in 0..(IF max < min THEN 0 ELSE (max - min) \div step)}

\* Math.round(v * 100) / 100 for an anchor v
Round100(v) == ((2 * v + (AnchorDen \div 100)) \div (2 * (AnchorDen \div 100))) * (AnchorDen \div 100)

\* zooms.map(z => z.id === id ? {...z, ...changes} : z)
WithZoom(zooms, id, changes) ==
    Map(zooms, LAMBDA z : IF z.id = id THEN Merge(z, changes) ELSE z)

\* Timeline.handleAddZoom with currentTime at playhead
AddZoomAtPlayhead(playhead) ==
    addZoom(playhead, Op("addZoom", "discrete", "toolbar"))

\* ZoomProperties: the scale slider (debounced), min 1.0 max 2.0 step 0.05
ScaleSlider(value) ==
    /\ PanelShowsZoom
    /\ value \in SliderStops(100, 200, 5)
    /\ updateEditConfigDebounced(
           [zooms |-> WithZoom(editConfig.zooms, selectedElement.id, [scale |-> value])],
           [Op("updateEditConfigDebounced", "gesture", "panel.scale")
               EXCEPT !.value = value])

\* ZoomProperties: bounds of the anchor sliders for the zoom shown
anchorMin(zoom) == Round100(HalfViewport(zoom.scale))
anchorMax(zoom) == Round100(AnchorDen - HalfViewport(zoom.scale))

\* ZoomProperties: the anchor X slider (debounced), step 0.05
AnchorSliderX(value) ==
    /\ PanelShowsZoom
    /\ LET zoom == ById(editConfig.zooms, selectedElement.id) IN
       value \in SliderStops(anchorMin(zoom), anchorMax(zoom), AnchorDen \div 20)
    /\ updateEditConfigDebounced(
           [zooms |-> WithZoom(editConfig.zooms, selectedElement.id, [anchorX |-> value])],
           [Op("updateEditConfigDebounced", "gesture", "panel.anchorX")
               EXCEPT !.value = value])

\* ZoomProperties: the anchor Y slider (debounced), step 0.05
AnchorSliderY(value) ==
    /\ PanelShowsZoom
    /\ LET zoom == ById(editConfig.zooms, selectedElement.id) IN
       value \in SliderStops(anchorMin(zoom), anchorMax(zoom), AnchorDen \div 20)
    /\ updateEditConfigDebounced(
           [zooms |-> WithZoom(editConfig.zooms, selectedElement.id, [anchorY |-> value])],
           [Op("updateEditConfigDebounced", "gesture", "panel.anchorY")
               EXCEPT !.value = value])

\* ZoomProperties: the time / duration number inputs
PanelZoomInput(changes) ==
    /\ PanelShowsZoom
    /\ updateZoom(selectedElement.id, changes, Op("updateZoom", "discrete", "panel"))
    /\ UNCHANGED selectedElement

-----------------------------------------------------------------------------
(* Editor components: annotations and captions *)

\* AnnotationOverlay.onMouseDown on the selected annotation: the drag
\* listeners are attached, closing over the position at mouse down
AnnotationMouseDown ==
    /\ PanelShowsAnnotation
    /\ annDrag = Null
    /\ LET ann == ById(editConfig.annotations, selectedElement.id) IN
       annDrag' = [id |-> ann.id, origX |-> ann.x, origY |-> ann.y]
    /\ UNCHANGED <<editConfig, editHistory, editFuture, selectedElement, isDirty, clip,
                   clipStart, clipEnd, _debounceTimer, _debounceSnapshot, clock, aside>>
    /\ Did(Op("mousedown", "ui", "overlay.drag"))

\* onMove: the pointer is (dx, dy) percent of the container from where it went down
AnnotationMouseMove(dx, dy) ==
    /\ annDrag # Null
    /\ LET newX == Max(0, Min(100, annDrag.origX + dx))
           newY == Max(0, Min(100, annDrag.origY + dy))
       IN updateAnnotation(annDrag.id, [x |-> newX, y |-> newY],
                           Op("updateAnnotation", "discrete", "overlay.drag"))

\* onUp: the drag listeners are removed
AnnotationMouseUp ==
    /\ annDrag # Null
    /\ annDrag' = Null
    /\ UNCHANGED <<editConfig, editHistory, editFuture, selectedElement, isDirty, clip,
                   clipStart, clipEnd, _debounceTimer, _debounceSnapshot, clock, aside>>
    /\ Did(Op("mouseup", "ui", "overlay.drag"))

\* CaptionEditor: the highlight and hide buttons of a word
ToggleHighlight(wordIndex) ==
    toggleWordHighlight(wordIndex, Op("toggleWordHighlight", "discrete", "captions"))

HideWord(wordIndex) ==
    hideWord(wordIndex, Op("hideWord", "discrete", "captions"))

-----------------------------------------------------------------------------
(* Timeline: pixels and times, snapping, drags of segment edges and zooms   *)

\* One second, in the unit of times
Second == 10 * 1

SNAP_THRESHOLD_PX == 8

\* xToTime(x) = x / timelineZoom seconds.  The pointer offsets the sessions
\* use are those whose time is a whole number of tenths.
Exact(x) == (Second * x) % timelineZoom = 0

xToTime(x) == (Second * x) \div timelineZoom

\* segmentBlocks: each segment with its place on the output timeline
segmentBlocks(segments) ==
    [i \in 1..Len(segments) |->
        LET outputOffset == TotalDuration(SubSeq(segments, 1, i - 1))
            duration == segments[i].sourceEnd - segments[i].sourceStart
        IN [id |-> segments[i].id,
            sourceStart |-> segments[i].sourceStart,
            sourceEnd |-> segments[i].sourceEnd,
            outputStart |-> outputOffset,
            outputEnd |-> outputOffset + duration]]

\* The times 0, 1 s, 2 s, ... up to dur
GridPoints(dur) == {t \in 0..dur : t % Second = 0}

\* Ascending order of a set of times
RECURSIVE Ascending(_)
Ascending(S) ==
    IF S = {} THEN <<>>
    ELSE LET lo == CHOOSE x \in S : \A y \in S : x <= y
         IN <<lo>> \o Ascending(S \ {lo})

\* snapPoints: segment boundaries on the output timeline, starts and ends of
\* the zooms, the grid; without duplicates, ascending.  Times are whole
\* tenths, which the rounding to milliseconds leaves as they are.
snapPoints ==
    IF editConfig = Null THEN Ascending(GridPoints(clipEnd - clipStart))
    ELSE LET blocks == segmentBlocks(editConfig.segments)
             dur == IF totalDuration # 0 THEN totalDuration ELSE clipEnd - clipStart
         IN Ascending(
                {blocks[i].outputStart : i \in 1..Len(blocks)}
                \cup {blocks[i].outputEnd : i \in 1..Len(blocks)}
                \cup {editConfig.zooms[i].time : i \in 1..Len(editConfig.zooms)}
                \cup {editConfig.zooms[i].time + editConfig.zooms[i].duration :
                          i \in 1..Len(editConfig.zooms)}
                \cup GridPoints(dur))

Abs(x) == IF x < 0 THEN -x ELSE x

\* dist < threshold, with threshold = xToTime(SNAP_THRESHOLD_PX), compared
\* without dividing
BelowThreshold(dist) == dist * timelineZoom < SNAP_THRESHOLD_PX * Second

\* Variant of the loop of snapTime that takes the last snap point under the
\* threshold rather than the closest
RECURSIVE snapLoopLast(_, _, _)
snapLoopLast(points, time, closest) ==
    IF points = <<>> THEN closest
    ELSE LET sp == Head(points)
             dist == Abs(time - sp)
         IN IF BelowThreshold(dist)
            THEN snapLoopLast(Tail(points), time, [point |-> sp, dist |-> dist])
            ELSE snapLoopLast(Tail(points), time, closest)

\* The loop of snapTime: closest is Null, or the closest snap point so far
\* with its distance
RECURSIVE snapLoop(_, _, _)
snapLoop(points, time, closest) ==
    IF points = <<>> THEN closest
    ELSE LET sp == Head(points)
             dist == Abs(time - sp)
         IN IF BelowThreshold(dist) /\ (closest = Null \/ dist < closest.dist)
            THEN snapLoop(Tail(points), time, [point |-> sp, dist |-> dist])
            ELSE snapLoop(Tail(points), time, closest)

\* snapTime(time): { time, snapped } (snapPoint is time when snapped)
snapTime(time) ==
    LET closest == snapLoop(snapPoints, time, Null)
    IN IF closest # Null
       THEN [time |-> closest.point, snapped |-> TRUE]
       ELSE [time |-> time, snapped |-> FALSE]

\* What the mouse handlers of the Timeline leave alone when they call no
\* operation of the store
OnlyDrag == UNCHANGED <<editConfig, editHistory, editFuture, selectedElement, isDirty,
                        clip, clipStart, clipEnd, _debounceTimer, _debounceSnapshot,
                        annDrag, clock, offstage>>

\* handleSegmentEdgeMouseDown(e, segmentId, edge)
SegmentEdgeMouseDown(clientX, segmentId, edge) ==
    /\ dragState = Null
    /\ editConfig # Null
    /\ segmentId \in SegmentIds
    /\ LET seg == ById(editConfig.segments, segmentId)
           t == IF edge = "start" THEN seg.sourceStart ELSE seg.sourceEnd
       IN /\ dragStartXRef' = clientX
          /\ dragState' = [type |-> "segment-edge", segmentId |-> segmentId,
                           edge |-> edge, initialSourceTime |-> t]
          /\ dragPreview' = [time |-> t, snapped |-> FALSE]
    /\ selectElementCall([type |-> "segment", id |-> segmentId],
                         [Op("selectElement", "ui", "timeline.down") EXCEPT !.value = clientX])

\* handleZoomMouseDown(e, zoomId)
ZoomMouseDown(clientX, zoomId) ==
    /\ dragState = Null
    /\ editConfig # Null
    /\ zoomId \in ZoomIds
    /\ LET zoom == ById(editConfig.zooms, zoomId)
       IN /\ dragStartXRef' = clientX
          /\ dragState' = [type |-> "zoom-move", zoomId |-> zoomId,
                           initialTime |-> zoom.time]
          /\ dragPreview' = [time |-> zoom.time, snapped |-> FALSE]
    /\ selectElementCall([type |-> "zoom", id |-> zoomId],
                         [Op("selectElement", "ui", "timeline.down") EXCEPT !.value = clientX])

\* rawTime of handleMouseMove / handleMouseUp
RawTime(deltaX) ==
    LET deltaTime == xToTime(deltaX)
    IN IF dragState.type = "segment-edge"
       THEN Max(0, dragState.initialSourceTime + deltaTime)
       ELSE Max(0, dragState.initialTime + deltaTime)

\* handleMouseMove(e) of the drag effect
TimelineMouseMove(clientX) ==
    /\ dragState # Null
    /\ LET deltaX == clientX - dragStartXRef
       IN /\ Exact(deltaX)
          /\ dragPreview' = snapTime(RawTime(deltaX))
    /\ UNCHANGED <<dragState, dragStartXRef>>
    /\ OnlyDrag
    /\ lastOp' = [Op("mousemove", "ui", "timeline.move") EXCEPT !.value = clientX]
    /\ UNCHANGED <<run, log>>

\* Variant of handleMouseUp without the test of the displacement
TimelineMouseUpAnyMove(clientX) ==
    /\ dragState # Null
    /\ LET deltaX == clientX - dragStartXRef
       IN /\ Exact(deltaX)
          /\ IF dragState.type = "segment-edge"
             THEN adjustSegmentEdgeCall(dragState.segmentId, dragState.edge,
                      snapTime(RawTime(deltaX)).time,
                      [Op("adjustSegmentEdge", "discrete", "timeline.up")
                          EXCEPT !.value = clientX])
             ELSE updateZoomCall(dragState.zoomId,
                      [time |-> snapTime(RawTime(deltaX)).time],
                      [Op("updateZoom", "discrete", "timeline.up")
                          EXCEPT !.value = clientX])
          /\ UNCHANGED selectedElement
    /\ dragState' = Null
    /\ dragPreview' = Null
    /\ UNCHANGED dragStartXRef

\* handleMouseUp(e) of the drag effect
TimelineMouseUp(clientX) ==
    /\ dragState # Null
    /\ LET deltaX == clientX - dragStartXRef
       IN /\ Exact(deltaX)
          /\ IF Abs(deltaX) > 2
             THEN /\ IF dragState.type = "segment-edge"
                     THEN adjustSegmentEdgeCall(dragState.segmentId, dragState.edge,
                              snapTime(RawTime(deltaX)).time,
                              [Op("adjustSegmentEdge", "discrete", "timeline.up")
                                  EXCEPT !.value = clientX])
                     ELSE updateZoomCall(dragState.zoomId,
                              [time |-> snapTime(RawTime(deltaX)).time],
                              [Op("updateZoom", "discrete", "timeline.up")
                                  EXCEPT !.value = clientX])
                  /\ UNCHANGED selectedElement
             ELSE /\ OnlyDrag
                  /\ lastOp' = [Op("mouseup", "ui", "timeline.up") EXCEPT !.value = clientX]
                  /\ UNCHANGED <<run, log>>
    /\ dragState' = Null
    /\ dragPreview' = Null
    /\ UNCHANGED dragStartXRef

-----------------------------------------------------------------------------
(* Editor page *)

\* What the auto-save steps leave alone
SaveUnchanged == UNCHANGED <<editConfig, editHistory, editFuture, selectedElement, clip,
                             clipStart, clipEnd, _debounceTimer, _debounceSnapshot,
                             annDrag, clock, viewVars, playVars, outside, previewVars,
                             dragVars>>

\* markSaving()
markSaving == isSaving' = TRUE

\* markSaved()
markSaved ==
    /\ isDirty' = FALSE
    /\ isSaving' = FALSE
    /\ lastSavedAt' = [at |-> clock]

\* The auto-save effect, run after a render in which isDirty or editConfig has
\* changed: the cleanup of the previous run clears the pending timeout, then
\* a timeout of two seconds is set when there is something to save
AutoSaveEffect ==
    /\ saveDeps # [isDirty |-> isDirty, editConfig |-> editConfig]
    /\ saveDeps' = [isDirty |-> isDirty, editConfig |-> editConfig]
    /\ saveTimerRef' = IF isDirty /\ editConfig # Null
                       THEN [editConfig |-> editConfig]
                       ELSE Null
    /\ UNCHANGED <<isDirty, isSaving, lastSavedAt, saveRequests, consoleErrors, persisted>>
    /\ SaveUnchanged
    /\ lastOp' = Op("effect", "ui", "autosave.effect")
    /\ UNCHANGED <<run, log>>

\* The timeout callback up to its await: markSaving(), updateClip(...) sent
SaveTimerFires ==
    /\ saveTimerRef # Null
    /\ markSaving
    /\ saveRequests' = Append(saveRequests, [editConfig |-> saveTimerRef.editConfig])
    /\ saveTimerRef' = Null
    /\ UNCHANGED <<isDirty, lastSavedAt, saveDeps, consoleErrors, persisted>>
    /\ SaveUnchanged
    /\ lastOp' = Op("markSaving", "ui", "autosave.timeout")
    /\ UNCHANGED <<run, log>>

\* A sequence without its i-th element
Without(q, i) == SubSeq(q, 1, i - 1) \o SubSeq(q, i + 1, Len(q))

\* The i-th updateClip resolves, its configuration written: markSaved()
SaveSucceeds(i) ==
    /\ i \in 1..Len(saveRequests)
    /\ persisted' = saveRequests[i]
    /\ markSaved
    /\ saveRequests' = Without(saveRequests, i)
    /\ UNCHANGED <<saveTimerRef, saveDeps, consoleErrors>>
    /\ SaveUnchanged
    /\ lastOp' = Op("markSaved", "ui", "autosave.then")
    /\ UNCHANGED <<run, log>>

\* The i-th updateClip rejects: the catch block logs the error
SaveFails(i) ==
    /\ i \in 1..Len(saveRequests)
    /\ consoleErrors' = consoleErrors + 1
    /\ saveRequests' = Without(saveRequests, i)
    /\ UNCHANGED <<isDirty, isSaving, lastSavedAt, saveTimerRef, saveDeps, persisted>>
    /\ SaveUnchanged
    /\ lastOp' = Op("console.error", "ui", "autosave.catch")
    /\ UNCHANGED <<run, log>>

\* The save indicator of the page header
SaveIndicator ==
    IF isSaving THEN "Saving..." ELSE IF isDirty THEN "Unsaved" ELSE "Saved"

-----------------------------------------------------------------------------
(* The playback engine: one instance drives the <video> element it was      *)
(* given; frames counts its requestAnimationFrame callbacks that have not   *)
(* run yet, handlePending tells whether animationFrameId names one of them  *)

\* new PlaybackEngine(video, editConfig, transcript, clipStart, clipEnd)
NewEngine(config) ==
    [destroyed |-> FALSE, subscribed |-> FALSE, isPlaying |-> FALSE, speed |-> 1,
     frames |-> 0, handlePending |-> FALSE, currentSegmentIndex |-> 1,
     segments |-> config.segments]

\* animationFrameId = requestAnimationFrame(tick)
Schedule(eng) == [eng EXCEPT !.frames = @ + 1, !.handlePending = TRUE]

\* cancelAnimationFrame(animationFrameId)
Cancel(eng) ==
    IF eng.handlePending THEN [eng EXCEPT !.frames = @ - 1, !.handlePending = FALSE]
    ELSE eng

\* The oldest callback runs: it is the one animationFrameId names when it is
\* the only one
Fired(eng) == [eng EXCEPT !.frames = @ - 1, !.handlePending = (@ /\ eng.frames > 1)]

\* The engine's output time for the element's position
OutputTime(eng, v) == sourceToOutput(eng.segments, v.time)

\* The segment of the time map that holds an output time (the last one at or
\* beyond the total duration)
Locate(segments, t) ==
    LET i == FirstIndex({k \in 1..Len(segments) :
                            /\ OutputStart(segments, k) <= t
                            /\ t < OutputStart(segments, k + 1)})
    IN IF i = 0 THEN Len(segments) ELSE i

\* play: the loop starts
enginePlay(eng, v) ==
    [eng |-> Schedule([eng EXCEPT !.isPlaying = TRUE, !.speed = 1]),
     video |-> [v EXCEPT !.paused = FALSE]]

\* Variant of pause that leaves the scheduled tick in place
enginePauseUncancelled(eng, v) ==
    [eng |-> [eng EXCEPT !.isPlaying = FALSE],
     video |-> [v EXCEPT !.paused = TRUE]]

\* pause: the loop stops, the scheduled tick is cancelled
enginePause(eng, v) ==
    [eng |-> Cancel([eng EXCEPT !.isPlaying = FALSE]),
     video |-> [v EXCEPT !.paused = TRUE]]

\* togglePlay()
engineTogglePlay(eng, v) ==
    IF eng.isPlaying THEN enginePause(eng, v) ELSE enginePlay(eng, v)

\* seek(outputTime): clamped to [0, totalDuration], through the time map
engineSeek(eng, v, outputTime) ==
    LET t == Max(0, Min(outputTime, TotalDuration(eng.segments)))
    IN IF eng.segments = <<>> THEN [eng |-> eng, video |-> v]
       ELSE [eng |-> [eng EXCEPT !.currentSegmentIndex = Locate(eng.segments, t)],
             video |-> [v EXCEPT !.time = outputToSource(eng.segments, t)]]

\* step(deltaSeconds)
engineStep(eng, v, delta) == engineSeek(eng, v, OutputTime(eng, v) + delta)

\* setShuttleSpeed(multiplier): 0 pauses; forward speeds play the element; in
\* reverse the element is paused and the engine steps back on every tick
engineSetShuttleSpeed(eng, v, multiplier) ==
    IF multiplier = 0 THEN enginePause(eng, v)
    ELSE LET started == IF eng.isPlaying THEN eng ELSE enginePlay(eng, v).eng
         IN [eng |-> [started EXCEPT !.speed = multiplier],
             video |-> [v EXCEPT !.paused = (multiplier < 0)]]

\* Variant of updateEditConfig that goes back to the start
engineUpdateEditConfigRewinding(eng, v, config) ==
    LET swapped == [eng EXCEPT !.segments = config.segments]
    IN IF config.segments = <<>> THEN [eng |-> swapped, video |-> v]
       ELSE engineSeek(swapped, v, 0)

\* updateEditConfig(newConfig, transcript, clipStart): the time map rebuilt,
\* the output position kept, clamped to the new total duration
engineUpdateEditConfig(eng, v, config) ==
    LET out == OutputTime(eng, v)
        swapped == [eng EXCEPT !.segments = config.segments]
    IN IF config.segments = <<>> THEN [eng |-> swapped, video |-> v]
       ELSE engineSeek(swapped, v, out)

\* destroy(): the scheduled tick cancelled, the element let go
engineDestroy(eng) == [Cancel(eng) EXCEPT !.destroyed = TRUE]

\* Variant of the tick that plays on past the end of the last segment
engineTickUnstopped(eng, v) ==
    LET run0 == Fired(eng)
        segs == eng.segments
        cur == eng.currentSegmentIndex
        moved ==
            IF segs = <<>> \/ ~eng.isPlaying THEN [eng |-> run0, video |-> v]
            ELSE IF eng.speed < 0
            THEN engineSeek(run0, v, OutputTime(eng, v) + eng.speed)
            ELSE IF v.time < segs[cur].sourceEnd THEN [eng |-> run0, video |-> v]
            ELSE IF cur < Len(segs)
            THEN [eng |-> [run0 EXCEPT !.currentSegmentIndex = cur + 1],
                  video |-> [v EXCEPT !.time = segs[cur + 1].sourceStart]]
            ELSE [eng |-> run0, video |-> v]
    IN [eng |-> IF moved.eng.isPlaying THEN Schedule(moved.eng) ELSE moved.eng,
        video |-> moved.video]

\* tick(): past the end of the active segment, the element is sent to the
\* start of the next segment of the array, or playback stops when there is
\* none; the next tick is requested at the end, while playing
engineTick(eng, v) ==
    LET run0 == Fired(eng)
        segs == eng.segments
        cur == eng.currentSegmentIndex
        moved ==
            IF segs = <<>> \/ ~eng.isPlaying THEN [eng |-> run0, video |-> v]
            ELSE IF eng.speed < 0
            THEN engineSeek(run0, v, OutputTime(eng, v) + eng.speed)
            ELSE IF v.time < segs[cur].sourceEnd THEN [eng |-> run0, video |-> v]
            ELSE IF cur < Len(segs)
            THEN [eng |-> [run0 EXCEPT !.currentSegmentIndex = cur + 1],
                  video |-> [v EXCEPT !.time = segs[cur + 1].sourceStart]]
            ELSE [eng |-> [run0 EXCEPT !.isPlaying = FALSE],
                  video |-> [v EXCEPT !.time = segs[cur].sourceEnd, !.paused = TRUE]]
    IN [eng |-> IF moved.eng.isPlaying THEN Schedule(moved.eng) ELSE moved.eng,
        video |-> moved.video]

-----------------------------------------------------------------------------
(* VideoPreview: the element, the engine it creates, the transport handlers *)

\* setPlaybackState(isPlaying, currentTime, totalDuration)
setPlaybackState(playing, time, total) ==
    /\ isPlaying' = playing
    /\ currentTime' = time
    /\ totalDuration' = total

\* The subscriber VideoPreview registers, called with the engine's snapshot
Notify(eng, v) ==
    IF eng.subscribed
    THEN setPlaybackState(eng.isPlaying, OutputTime(eng, v), TotalDuration(eng.segments))
    ELSE UNCHANGED playVars

\* What the preview and its engine leave alone
PreviewUnchanged == UNCHANGED <<editConfig, editHistory, editFuture, selectedElement,
                                isDirty, clip, clipStart, clipEnd, _debounceTimer,
                                _debounceSnapshot, annDrag, clock, viewVars, saveVars,
                                outside, dragVars>>

\* EditorPage: sourceUrl={useProxy && proxyVideoUrl ? proxyVideoUrl : sourceVideoUrl}
SourceUrl ==
    IF clip = Null THEN Null
    ELSE [url |-> IF useProxy /\ clip.proxyVideoUrl # "" THEN clip.proxyVideoUrl
                  ELSE clip.sourceVideoUrl]

\* toggleProxy()
toggleProxy ==
    /\ clip # Null
    /\ clip.proxyVideoUrl # ""
    /\ useProxy' = ~useProxy
    /\ UNCHANGED <<playVars, previewLocal>>
    /\ PreviewUnchanged
    /\ Did(Op("toggleProxy", "ui", "page"))

\* A call on engineRef.current, with the result of the engine's method
EngineCall(result, op) ==
    /\ engines' = [engines EXCEPT ![engineRef.id] = result.eng]
    /\ video' = result.video
    /\ Notify(result.eng, result.video)
    /\ UNCHANGED <<useProxy, mounted, engineRef, initDeps, updateDeps>>
    /\ PreviewUnchanged
    /\ lastOp' = [op EXCEPT !.value = engineRef.id]
    /\ UNCHANGED <<run, log>>

\* togglePlay (the button, and Space through editor:toggle-play)
TogglePlay ==
    /\ mounted
    /\ engineRef # Null
    /\ EngineCall(engineTogglePlay(engines[engineRef.id], video),
                  Op("togglePlay", "ui", "engine.togglePlay"))

\* handleShuttle (J / K / L through editor:shuttle)
HandleShuttle(speed) ==
    /\ mounted
    /\ engineRef # Null
    /\ EngineCall(engineSetShuttleSpeed(engines[engineRef.id], video, speed),
                  Op("setShuttleSpeed", "ui", "engine.setShuttleSpeed"))

\* handleStep (arrow keys through editor:step), stepBack, stepForward
HandleStep(seconds) ==
    /\ mounted
    /\ engineRef # Null
    /\ EngineCall(engineStep(engines[engineRef.id], video, seconds),
                  Op("step", "ui", "engine.step"))

\* handleSeekEvent (the timeline through editor:seek), handleSeek (the slider)
HandleSeek(time) ==
    /\ mounted
    /\ engineRef # Null
    /\ EngineCall(engineSeek(engines[engineRef.id], video, time),
                  Op("seek", "ui", "engine.seek"))

\* A display refresh: the oldest requested tick of an engine runs
Tick(e) ==
    /\ e \in 1..Len(engines)
    /\ engines[e].frames > 0
    /\ LET result == engineTick(engines[e], video) IN
       /\ engines' = [engines EXCEPT ![e] = result.eng]
       /\ video' = result.video
       /\ Notify(result.eng, result.video)
    /\ UNCHANGED <<useProxy, mounted, engineRef, initDeps, updateDeps>>
    /\ PreviewUnchanged
    /\ lastOp' = [Op("tick", "ui", "engine.tick") EXCEPT !.value = e]
    /\ UNCHANGED <<run, log>>

\* The element plays on by a tenth of a second
VideoAdvances ==
    /\ ~video.paused
    /\ video.time < clipEnd - clipStart
    /\ video' = [video EXCEPT !.time = @ + 1]
    /\ UNCHANGED <<playVars, useProxy, mounted, engineRef, engines, initDeps, updateDeps>>
    /\ PreviewUnchanged
    /\ lastOp' = Op("timeupdate", "ui", "video")
    /\ UNCHANGED <<run, log>>

\* Dependencies of the init effect and of the update effect, as rendered
InitDepsNow ==
    [sourceUrl |-> SourceUrl, isNLEMode |-> (SourceUrl # Null /\ editConfig # Null),
     clipStart |-> clipStart, clipEnd |-> clipEnd]

UpdateDepsNow == [editConfig |-> editConfig, clipStart |-> clipStart]

\* The element after the commit: none without a URL, a new load when the src
\* has changed
Rendered ==
    IF SourceUrl = Null THEN [video EXCEPT !.attached = FALSE]
    ELSE IF video.attached /\ video.src = SourceUrl THEN video
    ELSE [attached |-> TRUE, src |-> SourceUrl, time |-> 0, paused |-> TRUE]

\* unsubscribe()
Unsubscribed(eng) == [eng EXCEPT !.subscribed = FALSE]

\* Variant of the effects whose cleanup unsubscribes without destroying
PreviewEffectsLeaking ==
    /\ mounted
    /\ initDeps # InitDepsNow \/ updateDeps # UpdateDepsNow
    /\ LET rerun == initDeps # InitDepsNow
           v == Rendered
           cleaned == IF rerun /\ engineRef # Null
                      THEN [engines EXCEPT ![engineRef.id] = Unsubscribed(@)]
                      ELSE engines
           create == rerun /\ InitDepsNow.isNLEMode /\ v.attached
           created == IF create
                      THEN Append(cleaned, [NewEngine(editConfig) EXCEPT !.subscribed = TRUE])
                      ELSE cleaned
           ref == IF create THEN [id |-> Len(created)]
                  ELSE IF rerun THEN Null ELSE engineRef
           deliver == updateDeps # UpdateDepsNow /\ ref # Null /\ editConfig # Null
           result == IF deliver
                     THEN engineUpdateEditConfig(created[ref.id], v, editConfig)
                     ELSE [eng |-> Null, video |-> v]
       IN /\ engines' = IF deliver THEN [created EXCEPT ![ref.id] = result.eng] ELSE created
          /\ engineRef' = ref
          /\ video' = result.video
          /\ IF deliver THEN Notify(result.eng, result.video) ELSE UNCHANGED playVars
    /\ initDeps' = InitDepsNow
    /\ updateDeps' = UpdateDepsNow
    /\ UNCHANGED <<useProxy, mounted>>
    /\ PreviewUnchanged
    /\ lastOp' = Op("effects", "ui", "preview.effects")
    /\ UNCHANGED <<run, log>>

\* The effects of VideoPreview after a render in which their dependencies
\* have changed.  Init effect: the cleanup of its previous run (unsubscribe,
\* destroy, engineRef.current = null), then a new engine when there are a
\* source, a configuration and an element.  Update effect: updateEditConfig
\* on engineRef.current.
PreviewEffects ==
    /\ mounted
    /\ initDeps # InitDepsNow \/ updateDeps # UpdateDepsNow
    /\ LET rerun == initDeps # InitDepsNow
           v == Rendered
           cleaned == IF rerun /\ engineRef # Null
                      THEN [engines EXCEPT ![engineRef.id] = engineDestroy(Unsubscribed(@))]
                      ELSE engines
           create == rerun /\ InitDepsNow.isNLEMode /\ v.attached
           created == IF create
                      THEN Append(cleaned, [NewEngine(editConfig) EXCEPT !.subscribed = TRUE])
                      ELSE cleaned
           ref == IF create THEN [id |-> Len(created)]
                  ELSE IF rerun THEN Null ELSE engineRef
           deliver == updateDeps # UpdateDepsNow /\ ref # Null /\ editConfig # Null
           result == IF deliver
                     THEN engineUpdateEditConfig(created[ref.id], v, editConfig)
                     ELSE [eng |-> Null, video |-> v]
       IN /\ engines' = IF deliver THEN [created EXCEPT ![ref.id] = result.eng] ELSE created
          /\ engineRef' = ref
          /\ video' = result.video
          /\ IF deliver THEN Notify(result.eng, result.video) ELSE UNCHANGED playVars
    /\ initDeps' = InitDepsNow
    /\ updateDeps' = UpdateDepsNow
    /\ UNCHANGED <<useProxy, mounted>>
    /\ PreviewUnchanged
    /\ lastOp' = Op("effects", "ui", "preview.effects")
    /\ UNCHANGED <<run, log>>

\* VideoPreview unmounts: the cleanup of the init effect runs
Unmount ==
    /\ mounted
    /\ mounted' = FALSE
    /\ engines' = IF engineRef # Null
                  THEN [engines EXCEPT ![engineRef.id] = engineDestroy(Unsubscribed(@))]
                  ELSE engines
    /\ engineRef' = Null
    /\ video' = [video EXCEPT !.attached = FALSE]
    /\ initDeps' = Null
    /\ updateDeps' = Null
    /\ UNCHANGED <<playVars, useProxy>>
    /\ PreviewUnchanged
    /\ lastOp' = Op("unmount", "ui", "preview.unmount")
    /\ UNCHANGED <<run, log>>

\* What the calls of the time map leave alone
program == <<editConfig, editHistory, editFuture, selectedElement, isDirty, clip,
             clipStart, clipEnd, _debounceTimer, _debounceSnapshot, annDrag, clock,
             viewVars, playVars, saveVars, previewVars, dragVars, backend, pageVars,
             lastOp, run, log>>

\* sourceToOutput(s) on the probe's segment list
TimeMapForth ==
    /\ probe # Null
    /\ probe.stage = 0
    /\ probe' = [probe EXCEPT !.stage = 1, !.o = sourceToOutput(probe.segments, probe.s)]
    /\ UNCHANGED program

\* outputToSource of that output time
TimeMapBack ==
    /\ probe # Null
    /\ probe.stage = 1
    /\ probe' = [probe EXCEPT !.stage = 2, !.back = outputToSource(probe.segments, probe.o)]
    /\ UNCHANGED program

\* sourceToOutput of that source time
TimeMapForthAgain ==
    /\ probe # Null
    /\ probe.stage = 2
    /\ probe' = [probe EXCEPT !.stage = 3, !.o2 = sourceToOutput(probe.segments, probe.back)]
    /\ UNCHANGED program

\* Timeline.handleWheel with ctrl or meta held: five pixels per second per notch
WheelZoom(deltaY) ==
    /\ deltaY # 0
    /\ setTimelineZoom(timelineZoom + (IF deltaY > 0 THEN -5 ELSE 5))

\* Timeline: the zoom range input, min 10 max 200
ZoomRangeInput(value) ==
    /\ value \in 10..200
    /\ setTimelineZoom(value)

\* The clip snapshot listener: the store is initialized when it holds no clip
LoadClip ==
    /\ clip = Null
    /\ \E c \in Clips : initialize(c)
    /\ page' = [page EXCEPT !.loading = FALSE]
    /\ UNCHANGED loads

-----------------------------------------------------------------------------
(* Inputs *)

\* Slider positions and field values the sessions use
DurationSteps == {2, 6}
ScaleSteps == {150}
AnchorSteps == {anchorMin([scale |-> sc]) : sc \in ScaleSteps}
PlayheadTimes == {0, 2}
EdgeTimes == {6}
DragDeltas == {<<-100, 0>>, <<100, 0>>}
\* Where a session with one slider position leaves the transition duration
LateDuration == 2

\* Pointer positions: where it goes down, and where it moves and is released
PointerDownX == {40}
DragOffsets == {-3, 0, 2, 3, 5, 20}
PointerXs == {x + d : x \in PointerDownX, d \in DragOffsets}

\* Failed saves of a session, and requests awaited at a time
MaxFailures == 2
MaxRequests == 2

\* Source ranges a segment list is made of, each longer than the minimum
\* duration, and the longest list
RangePool == {<<0, 2>>, <<2, 4>>, <<5, 7>>, <<1, 6>>}
MaxSegments == 3
MaxSourceTime == 7

\* Invocations of the cloud functions in a session of the backend
MaxInvocations == 3

\* What the transport of a preview session is given
ShuttleSpeeds == {-1, 0}
StepSizes == {-2}
SeekTimes == {9}

\* A segment over a source range
SegmentOver(range, id) ==
    [id |-> id, sourceStart |-> range[1], sourceEnd |-> range[2],
     transition |-> "none", transitionDuration |-> 0]

\* The segment lists over distinct ranges of the pool, in any array order
SegmentLists ==
    {[i \in 1..Len(q) |-> SegmentOver(q[i], i)] :
        q \in {r \in UNION {[1..n -> RangePool] : n \in 1..MaxSegments} :
                  \A i, j \in 1..Len(r) : i # j => r[i] # r[j]}}

\* Is s inside a kept segment?
Kept(segments, s) ==
    \E i \in 1..Len(segments) : segments[i].sourceStart <= s /\ s <= segments[i].sourceEnd

\* A segment list and a source time inside one of its segments
TimeMapInputs ==
    {[segments |-> L, s |-> s, stage |-> 0, o |-> 0, back |-> 0, o2 |-> 0] :
        L \in SegmentLists, s \in 0..MaxSourceTime} 

\* View inputs: wheel notches, positions of the zoom range input, scroll
\* offsets (a negative one among them)
WheelNotches == {-100, 100}
ZoomPositions == {10, 200}
ScrollOffsets == {-30, 120}

\* The wheel is turned near the ends of the zoom range
NearZoomLimit == timelineZoom <= 10 \/ timelineZoom >= 200

\* Edits and slider changes are made while the undo stack is short
Shallow == editConfig # Null /\ Len(editHistory) < MaxDepth

\* The sessions of continuous edits and of zooms are shorter
Brief == editConfig # Null /\ Len(editHistory) < BriefDepth

\* Ids are generated while the clock is low
ClockLow == clock < MaxClock

\* The first word of the transcript without an override
NextWord == IF editConfig = Null THEN 0
            ELSE Cardinality(DOMAIN editConfig.captionOverrides) + 1

-----------------------------------------------------------------------------
(* A long session: words hidden one after the other at the tip of the       *)
(* history, undo and redo over the whole stack, a slider touched when the   *)
(* stack is almost full                                                     *)

NextHistory ==
    \/ LoadClip
    \/ /\ editFuture = <<>>
       /\ NextWord \in 1..NumWords
       /\ HideWord(NextWord)
    \/ /\ Len(editHistory) >= LateGestureLen
       /\ ClickElement("segment", 2)
    \/ /\ Len(editHistory) >= LateGestureLen
       /\ editFuture = <<>>
       /\ _debounceTimer # Null \/ PipelineConfig.segments[2] \in Range(editConfig.segments)
       /\ PanelDurationSlider(LateDuration)
    \/ DebounceTimerFires
    \/ undo
    \/ redo

SpecHistory == Init /\ [][NextHistory]_vars

-----------------------------------------------------------------------------
(* A short session on the transition duration of the second segment: the    *)
(* slider of the panel (debounced), the slider of the popover, undo, redo   *)

NextGesture ==
    \/ LoadClip
    \/ ClickElement("segment", 2)
    \/ Shallow /\ \E v \in DurationSteps : PanelDurationSlider(v)
    \/ Shallow /\ \E v \in DurationSteps : PopoverSetDuration(2, v)
    \/ DebounceTimerFires
    \/ undo
    \/ redo

SpecGesture == Init /\ [][NextGesture]_vars

-----------------------------------------------------------------------------
(* A short session of continuous edits: the annotation dragged on the       *)
(* preview, the transition duration sliders, undo, redo                     *)

NextDrag ==
    \/ LoadClip
    \/ ClickElement("segment", 2)
    \/ \E id \in AnnotationIds : ClickElement("annotation", id)
    \/ AnnotationMouseDown
    \/ Brief /\ \E d \in DragDeltas : AnnotationMouseMove(d[1], d[2])
    \/ AnnotationMouseUp
    \/ Brief /\ PanelDurationSlider(LateDuration)
    \/ Brief /\ PopoverSetDuration(2, LateDuration)
    \/ DebounceTimerFires
    \/ undo
    \/ redo

SpecDrag == Init /\ [][NextDrag]_vars

-----------------------------------------------------------------------------
(* A short session on zooms: the sliders and inputs of the panel, delete,   *)
(* a zoom added when there is none, undo, redo                              *)

NextZoom ==
    \/ LoadClip
    \/ \E id \in ZoomIds : ClickElement("zoom", id)
    \/ Brief /\ ClockLow /\ editConfig.zooms = <<>> /\ AddZoomAtPlayhead(2)
    \/ Brief /\ \E v \in ScaleSteps : ScaleSlider(v)
    \/ Brief /\ \E v \in AnchorSteps : AnchorSliderX(v)
    \/ Brief /\ \E v \in AnchorSteps : AnchorSliderY(v)
    \/ Brief /\ PanelZoomInput([duration |-> 5])
    \/ Brief /\ PanelDeleteZoom
    \/ DebounceTimerFires
    \/ undo
    \/ redo

SpecZoom == Init /\ [][NextZoom]_vars

-----------------------------------------------------------------------------
(* A short session on segments: split at the playhead, delete from the      *)
(* keyboard, the toolbar and the panel, the edge inputs and the transition  *)
(* select of the panel, a change in the configuration panel, undo, redo     *)

NextSegments ==
    \/ LoadClip
    \/ \E id \in SegmentIds : ClickElement("segment", id)
    \/ EscapeKey
    \/ Brief /\ ClockLow /\ \E t \in PlayheadTimes : SplitAtPlayhead(t)
    \/ Brief /\ ClockLow /\ \E t \in PlayheadTimes : KeySplit(t)
    \/ Brief /\ KeyDelete
    \/ Brief /\ ToolbarDelete
    \/ Brief /\ PanelDeleteSegment
    \/ Brief /\ \E t \in EdgeTimes : PanelEdgeInput("end", t)
    \/ Brief /\ PanelTransitionSelect("none")
    \/ Brief /\ EditConfigPanelChange([captions |-> [style |-> "minimal"]])
    \/ undo
    \/ redo

SpecSegments == Init /\ [][NextSegments]_vars

-----------------------------------------------------------------------------
(* Properties of the history: long session *)

\* C1 as stated: after N discrete edits from C0 to CN with no gesture, N
\* undos give back C0 and N further redos give back CN, whatever N is.
HistoryIntegrityAnyN ==
    IsLog(log) =>
        /\ (log.u = log.n /\ log.r = 0) => editConfig = log.c0
        /\ (log.u = log.n /\ log.r = log.n) => editConfig = log.cN

\* C1: after N discrete edits from C0 to CN with no gesture, N undos give
\* back C0 and N further redos give back CN, provided N is at most
\* MAX_HISTORY (the undo stack has dropped C0 after more edits than that).
HistoryIntegrity ==
    (IsLog(log) /\ log.n <= MAX_HISTORY) =>
        /\ (log.u = log.n /\ log.r = 0) => editConfig = log.c0
        /\ (log.u = log.n /\ log.r = log.n) => editConfig = log.cN

\* MAX_HISTORY edits, as many undos and as many redos have been made
HistoryIntegrityReached ==
    /\ IsLog(log)
    /\ log.n = MAX_HISTORY /\ log.u = log.n /\ log.r = log.n
    /\ log.c0 # log.cN
    /\ editConfig = log.cN

\* C3: the undo stack never holds more than MAX_HISTORY entries, and a push
\* onto a full stack (by a discrete edit, by the debounce timer, or by the
\* flush that undo makes of a pending gesture) drops the oldest entry.
BoundedUndoStack ==
    [][ /\ Len(editHistory') <= MAX_HISTORY
        /\ (Len(editHistory) = MAX_HISTORY /\ lastOp'.kind = "discrete")
              => editHistory' = Append(Tail(editHistory), editConfig)
        /\ (Len(editHistory) = MAX_HISTORY /\ lastOp'.kind = "fire" /\ lastOp'.pending)
              => editHistory' = Append(Tail(editHistory), _debounceSnapshot)
        /\ (Len(editHistory) = MAX_HISTORY /\ lastOp'.kind = "undo" /\ lastOp'.pending)
              => editHistory' = Tail(editHistory)
      ]_vars

\* More than MAX_HISTORY edits in a row have been made and the stack is full
OldestEvicted ==
    /\ IsLog(log)
    /\ log.n > MAX_HISTORY /\ log.u = 0
    /\ Len(editHistory) = MAX_HISTORY
    /\ editHistory[1] # log.c0

-----------------------------------------------------------------------------
(* Properties of gestures: short sessions *)

\* C2: a run of debounced updates, each before the timer of the previous one
\* has fired, followed by the timer firing, adds exactly one entry to the
\* undo stack, the configuration from before the first update of the run;
\* no entry is added during the run, and every update is applied to
\* editConfig at once.
GestureCoalescing ==
    [][ /\ IsRun(run') => editHistory' = run'.hist
        /\ (lastOp'.kind = "gesture" /\ lastOp'.ctl = "panel.transitionDuration")
              => /\ ById(editConfig'.segments, selectedElement.id).transitionDuration
                        = lastOp'.value
                 /\ isDirty'
        /\ (lastOp'.kind = "fire" /\ IsRun(run))
              => /\ editHistory' = SliceLast(Append(run.hist, run.pre), MAX_HISTORY)
                 /\ editConfig' = editConfig
                 /\ _debounceSnapshot' = Null
      ]_vars

\* The timer has fired after a run of two or more debounced updates that
\* ended on another value than it started from
RunCommitted ==
    /\ lastOp.kind = "fire" /\ lastOp.calls >= 2
    /\ editHistory # <<>>
    /\ editHistory[Len(editHistory)] # editConfig

\* C4: undo while a gesture commit is pending (snapshot S, timer running,
\* configuration G) leaves editConfig = S, G on top of the redo stack, the
\* undo stack as it was before the gesture, the pending slot empty and the
\* timer cancelled, so that the timer adds nothing afterwards.
UndoFlushesPendingGesture ==
    [][ (lastOp'.kind = "undo" /\ _debounceSnapshot # Null)
            => /\ editConfig' = _debounceSnapshot
               /\ editFuture' = <<editConfig>>
               /\ editHistory' = DropLast(SliceLast(Append(editHistory, _debounceSnapshot),
                                                    MAX_HISTORY))
               /\ _debounceSnapshot' = Null
               /\ _debounceTimer' = Null
      ]_vars

\* undo has just run with a gesture commit pending
UndoWithPendingGesture ==
    /\ lastOp.kind = "undo" /\ lastOp.pending
    /\ editFuture # <<>>
    /\ Head(editFuture) # editConfig

\* C5 as stated: once a discrete edit or the first update of a gesture has
\* been applied, the redo stack is empty.
LinearHistory ==
    (lastOp.kind = "discrete" \/ (lastOp.kind = "gesture" /\ ~lastOp.pending))
        => editFuture = <<>>

\* C10 as stated: an event of a continuous control (a slider, a drag) that
\* follows an event of the same control adds no entry to the undo stack, so
\* that the whole gesture adds one.
ContinuousControls == {"panel.scale", "panel.anchorX", "panel.anchorY",
                       "panel.transitionDuration", "popover.transitionDuration",
                       "overlay.drag"}

OneEntryPerGesture ==
    [][ ( /\ lastOp.ctl \in ContinuousControls
          /\ lastOp'.ctl = lastOp.ctl
          /\ lastOp.kind \in {"discrete", "gesture"}
          /\ lastOp'.kind \in {"discrete", "gesture"} )
            => editHistory' = editHistory
      ]_vars

-----------------------------------------------------------------------------
(* Properties of zooms *)

\* 0.5/scale <= anchor <= 1 - 0.5/scale, without division
AnchorInRange(anchor, scale) ==
    /\ 50 * AnchorDen <= anchor * scale
    /\ anchor * scale <= AnchorDen * (scale - 50)

\* C6 as stated: in every reachable state every zoom of editConfig has both
\* anchors within [0.5/scale, 1 - 0.5/scale].
ZoomAnchorInvariant ==
    editConfig # Null =>
        \A i \in 1..Len(editConfig.zooms) :
            /\ AnchorInRange(editConfig.zooms[i].anchorX, editConfig.zooms[i].scale)
            /\ AnchorInRange(editConfig.zooms[i].anchorY, editConfig.zooms[i].scale)

-----------------------------------------------------------------------------
(* Properties of segments *)

\* C7: under the editor's operations (delete from the keyboard, the toolbar
\* and the panel, split, edge input, undo, redo) editConfig always has at
\* least one segment, and a delete request made when one segment is left
\* leaves that segment in place.
AtLeastOneSegment ==
    [][ editConfig' # Null =>
          /\ Len(editConfig'.segments) >= 1
          /\ (editConfig # Null /\ lastOp'.op = "deleteSegment"
                /\ Len(editConfig.segments) = 1)
                => editConfig'.segments = editConfig.segments
      ]_vars

\* A delete request for the only segment left has been made
SoleSegmentDeleteRequested ==
    /\ lastOp.op = "deleteSegment" /\ lastOp.refused
    /\ Len(editConfig.segments) = 1

\* C8 as stated: a structurally invalid request (a split not strictly inside
\* the segment, a delete of the last segment) leaves editConfig, the undo
\* stack and the redo stack unchanged.
InvalidRequestIsNoOp ==
    [][ lastOp'.invalid => UNCHANGED <<editConfig, editHistory, editFuture>> ]_vars

\* C9 as stated: whenever an operation of the store changes the segments or
\* the cuts of editConfig, the new cuts are the ones derived from the new
\* segments and clipEnd - clipStart.
CutsAlwaysDerived ==
    [][ ( /\ editConfig' # Null
          /\ \/ editConfig = Null
             \/ editConfig'.segments # editConfig.segments
             \/ editConfig'.cuts # editConfig.cuts )
            => editConfig'.cuts
                  = segmentsToCuts(editConfig'.segments, clipEnd' - clipStart')
      ]_vars

-----------------------------------------------------------------------------
(* A session that mixes view changes with edits, undo and redo              *)

NextView ==
    \/ LoadClip
    \/ ClickElement("segment", 2)
    \/ EscapeKey
    \/ Brief /\ ClockLow /\ AddZoomAtPlayhead(2)
    \/ Brief /\ \E v \in DurationSteps : PopoverSetDuration(2, v)
    \/ NearZoomLimit /\ \E d \in WheelNotches : WheelZoom(d)
    \/ \E v \in ZoomPositions : ZoomRangeInput(v)
    \/ \E x \in ScrollOffsets : setTimelineScroll(x)
    \/ undo
    \/ redo

SpecView == Init /\ [][NextView]_vars

-----------------------------------------------------------------------------
(* C11 *)

\* C11: undo and redo leave the selection, the timeline zoom and the timeline
\* scroll as they were; selecting an element, setting the timeline zoom and
\* setting the timeline scroll leave the configuration, the undo stack and the
\* redo stack as they were.
ViewNotVersioned ==
    [][ /\ lastOp'.kind \in {"undo", "redo"}
           => UNCHANGED <<selectedElement, timelineZoom, timelineScroll>>
        /\ lastOp'.op \in {"selectElement", "setTimelineZoom", "setTimelineScroll"}
           => UNCHANGED <<editConfig, editHistory, editFuture>> ]_vars

\* An undo has taken back the zoom that is still selected, at a zoom level and
\* a scroll offset other than the initial ones
UndoneUnderChangedView ==
    /\ lastOp.kind = "undo"
    /\ editFuture # <<>>
    /\ selectedElement # Null
    /\ selectedElement.type = "zoom"
    /\ selectedElement.id \notin ZoomIds
    /\ timelineZoom = 195
    /\ timelineScroll = 120

-----------------------------------------------------------------------------
(* A session of drags on the timeline at several zoom levels                *)

NextTimeline ==
    \/ LoadClip
    \/ \E v \in ZoomPositions : ZoomRangeInput(v)
    \/ Brief /\ \E x \in PointerDownX, id \in SegmentIds, edge \in {"start", "end"} :
                    SegmentEdgeMouseDown(x, id, edge)
    \/ Brief /\ \E x \in PointerDownX, id \in ZoomIds : ZoomMouseDown(x, id)
    \/ \E x \in PointerXs : TimelineMouseMove(x)
    \/ \E x \in PointerXs : TimelineMouseUp(x)

SpecTimeline == Init /\ [][NextTimeline]_vars

-----------------------------------------------------------------------------
(* C12 *)

\* C12: while a segment edge or a zoom is dragged on the timeline, a pointer
\* move changes the drag preview only and leaves the store (configuration,
\* undo stack, redo stack) alone; the release commits exactly one edit,
\* adjustSegmentEdge for an edge and updateZoom for a zoom, when the pointer is
\* more than 2 pixels from where it went down, and none otherwise; either way
\* the drag state is idle after the release.
DragsCommitOnRelease ==
    [][ /\ lastOp'.ctl = "timeline.move"
           => UNCHANGED <<storeVars, _debounceTimer, _debounceSnapshot, dragState>>
        /\ lastOp'.ctl = "timeline.up"
           => /\ dragState # Null
              /\ dragState' = Null
              /\ dragPreview' = Null
              /\ IF Abs(lastOp'.value - dragStartXRef) > 2
                 THEN /\ lastOp'.op = IF dragState.type = "segment-edge"
                                      THEN "adjustSegmentEdge" ELSE "updateZoom"
                      /\ editHistory' = Append(editHistory, editConfig)
                      /\ editFuture' = <<>>
                 ELSE UNCHANGED storeVars ]_vars

\* An edge has been dragged and released more than 2 pixels away, and the
\* segments are no longer those of the clip
EdgeDragCommitted ==
    /\ lastOp.ctl = "timeline.up"
    /\ lastOp.op = "adjustSegmentEdge"
    /\ Abs(lastOp.value - dragStartXRef) > 2
    /\ dragState = Null
    /\ Len(editHistory) = 1
    /\ editConfig.segments # editHistory[1].segments

-----------------------------------------------------------------------------
(* C13 *)

\* The candidate time of the last pointer move
MovedTo == RawTime(lastOp.value - dragStartXRef)

\* The snap points less than 8 pixels from the candidate time of the last move
NearMovedTo ==
    {sp \in Range(snapPoints) : Abs(MovedTo - sp) * timelineZoom < 8 * Second}

\* C13: snapTime(t) is the snap point nearest to t among those whose distance
\* to t is below the time that 8 pixels stand for at the current pixels per
\* second, with the snapped flag raised; when there is none it is t itself,
\* with the flag not raised.
SnapsToNearest ==
    lastOp.ctl = "timeline.move" =>
        IF NearMovedTo # {}
        THEN /\ dragPreview.snapped
             /\ dragPreview.time \in NearMovedTo
             /\ \A sp \in NearMovedTo :
                    Abs(MovedTo - dragPreview.time) <= Abs(MovedTo - sp)
        ELSE /\ ~dragPreview.snapped
             /\ dragPreview.time = MovedTo

\* A move has snapped to another time than the candidate, with several snap
\* points under the threshold and a farther one after the nearest
SnappedAmongSeveral ==
    /\ lastOp.ctl = "timeline.move"
    /\ dragPreview.snapped
    /\ dragPreview.time # MovedTo
    /\ \E sp \in NearMovedTo :
          sp > dragPreview.time /\ Abs(MovedTo - sp) > Abs(MovedTo - dragPreview.time)

-----------------------------------------------------------------------------
(* A session of edits with the auto-save running, its requests resolving or *)
(* rejecting; a timeout comes due after the effects of the last render      *)

NextSave ==
    \/ LoadClip
    \/ Brief /\ \E v \in DurationSteps : PopoverSetDuration(2, v)
    \/ undo
    \/ redo
    \/ AutoSaveEffect
    \/ /\ Len(saveRequests) < MaxRequests
       /\ saveDeps = [isDirty |-> isDirty, editConfig |-> editConfig]
       /\ SaveTimerFires
    \/ \E i \in 1..MaxRequests : SaveSucceeds(i)
    \/ consoleErrors < MaxFailures /\ \E i \in 1..MaxRequests : SaveFails(i)

SpecSave == Init /\ [][NextSave]_vars

-----------------------------------------------------------------------------
(* C14 *)

\* C14: when an auto-save attempt fails the error is caught and logged, no
\* retry is scheduled, the session can still be edited (the store is as it
\* was), and the indicator of the page reads "Unsaved" from then on, until a
\* later attempt succeeds.
FailedSaveStaysVisible ==
    [][ lastOp'.ctl = "autosave.catch"
        => /\ consoleErrors' = consoleErrors + 1
           /\ UNCHANGED <<saveTimerRef, editConfig, editHistory, editFuture>>
           /\ saveRequests' = <<>> => (isDirty' /\ SaveIndicator' = "Unsaved") ]_vars

-----------------------------------------------------------------------------
(* The time map applied to segment lists in any array order                 *)

InitTimeMap ==
    /\ Fresh
    /\ probe \in {x \in TimeMapInputs : Kept(x.segments, x.s)}

NextTimeMap ==
    \/ TimeMapForth
    \/ TimeMapBack
    \/ TimeMapForthAgain

SpecTimeMap == InitTimeMap /\ [][NextTimeMap]_vars

-----------------------------------------------------------------------------
(* C19 *)

\* Are the source ranges apart: no two of them with a time in common, but for
\* a segment that starts where the one before it in the array ends?
Apart(segments) ==
    \A i, j \in 1..Len(segments) :
        i < j => \/ segments[i].sourceEnd < segments[j].sourceStart
                 \/ segments[j].sourceEnd < segments[i].sourceStart
                 \/ (j = i + 1 /\ segments[i].sourceEnd = segments[j].sourceStart)

\* C19 as stated: for every list of segments longer than the minimum duration,
\* in any array order, and every source time s inside a kept segment,
\* sourceToOutput(outputToSource(sourceToOutput(s))) = sourceToOutput(s).
RoundTripAnyOrder ==
    (probe # Null /\ probe.stage = 3) => probe.o2 = probe.o

\* C19: for every list of segments longer than the minimum duration whose
\* source ranges are apart (in any array order), and every source time s
\* inside a kept segment, sourceToOutput(outputToSource(sourceToOutput(s))) =
\* sourceToOutput(s).
RoundTripApart ==
    (probe # Null /\ probe.stage = 3 /\ Apart(probe.segments))
        => probe.o2 = probe.o

\* The round trip of the end of a segment followed by a cut, in a list that
\* is not in source order: the way back lands on the start of the next
\* segment of the array
RoundTripAcrossCut ==
    /\ probe # Null
    /\ probe.stage = 3
    /\ Apart(probe.segments)
    /\ Len(probe.segments) = 3
    /\ probe.segments[2].sourceStart < probe.segments[1].sourceStart
    /\ probe.s = probe.segments[1].sourceEnd
    /\ probe.back = probe.segments[2].sourceStart

-----------------------------------------------------------------------------
(* C20 *)

-----------------------------------------------------------------------------
(* The preview: a clip is loaded, played, and edited while it plays *)

\* A preview session leaves the proxy for the source once, then makes one
\* edit, and can undo it
Unedited == editConfig # Null /\ editHistory = <<>> /\ editFuture = <<>>

\* The segment a preview session selects
LastSegmentId == editConfig.segments[Len(editConfig.segments)].id

\* The effects of the last render have run: React runs them before it
\* handles the next event of the user; a display refresh can come earlier
Settled == ~mounted \/ (initDeps = InitDepsNow /\ updateDeps = UpdateDepsNow)

NextPreview ==
    \/ LoadClip
    \/ Settled /\ Unedited
          /\ \E id \in SegmentIds : id = LastSegmentId /\ ClickElement("segment", id)
    \/ Settled /\ Unedited /\ ClockLow
          /\ \E t \in PlayheadTimes : t = currentTime /\ KeySplit(t)
    \/ Settled /\ Unedited /\ KeyDelete
    \/ Settled /\ undo
    \/ Settled /\ Unedited /\ useProxy /\ toggleProxy
    \/ PreviewEffects
    \/ Settled /\ Unmount
    \/ Settled /\ TogglePlay
    \/ Settled /\ \E speed \in ShuttleSpeeds : HandleShuttle(speed)
    \/ Settled /\ \E seconds \in StepSizes : HandleStep(seconds)
    \/ Settled /\ \E time \in SeekTimes : HandleSeek(time)
    \/ \E e \in 1..Len(engines) : Tick(e)
    \/ VideoAdvances

SpecPreview == Init /\ [][NextPreview]_vars

\* Is a source time inside one of the kept ranges?
InKeptRange(segments, t) ==
    \E k \in 1..Len(segments) :
        segments[k].sourceStart <= t /\ t <= segments[k].sourceEnd

-----------------------------------------------------------------------------
(* C15 *)

\* C15: a tick of an engine that plays forward and finds the element at or
\* past the end of its active segment sends the element to the start of the
\* next segment of the array and plays on, or, after the last segment, stops
\* at the end of the timeline with no tick requested; an engine that still
\* plays after its tick has the element inside a kept range.
CutsSkipped ==
    [][ lastOp'.ctl = "engine.tick"
        => LET e == lastOp'.value
               eng == engines[e]
               segs == eng.segments
               cur == eng.currentSegmentIndex
           IN /\ (eng.isPlaying /\ eng.speed > 0 /\ video.time >= segs[cur].sourceEnd)
                 => IF cur < Len(segs)
                    THEN /\ video'.time = segs[cur + 1].sourceStart
                         /\ engines'[e].currentSegmentIndex = cur + 1
                         /\ engines'[e].isPlaying
                         /\ engines'[e].frames = 1
                    ELSE /\ ~engines'[e].isPlaying
                         /\ engines'[e].frames = 0
                         /\ video'.paused
                         /\ sourceToOutput(segs, video'.time) = TotalDuration(segs)
              /\ engines'[e].isPlaying => InKeptRange(segs, video'.time) ]_vars

\* The element has run through the cut between the two segments of the clip,
\* and the tick has put it at the start of the second
TickCrossedCut ==
    /\ lastOp.ctl = "engine.tick"
    /\ engines[lastOp.value].segments = PipelineConfig.segments
    /\ engines[lastOp.value].isPlaying
    /\ engines[lastOp.value].speed > 0
    /\ engines[lastOp.value].currentSegmentIndex = 2
    /\ video.time = PipelineConfig.segments[2].sourceStart
    /\ currentTime = PipelineConfig.segments[1].sourceEnd

-----------------------------------------------------------------------------
(* C16 *)

\* C16: no engine has more than one tick requested; a requested tick is the
\* one its animationFrameId names, and its engine is playing and not
\* destroyed.
OneTickAtATime ==
    \A e \in 1..Len(engines) :
        /\ engines[e].frames <= 1
        /\ engines[e].handlePending <=> engines[e].frames = 1
        /\ engines[e].frames = 1 => engines[e].isPlaying /\ ~engines[e].destroyed

\* A tick of an engine in reverse shuttle has run and has requested the next
TickedInReverse ==
    /\ lastOp.ctl = "engine.tick"
    /\ engines[lastOp.value].isPlaying
    /\ engines[lastOp.value].speed < 0
    /\ engines[lastOp.value].frames = 1
    /\ Len(engines[lastOp.value].segments) = 3

-----------------------------------------------------------------------------
(* C17 *)

\* C17: a step that creates an engine leaves every earlier engine destroyed;
\* an unmounted preview has no live engine; at most one engine is live, the
\* one engineRef holds; a destroyed engine has no tick requested and no
\* subscriber, and no tick of a destroyed engine runs.
TeardownBeforeCreate ==
    [][ /\ Len(engines') > Len(engines)
           => \A e \in 1..Len(engines) : engines'[e].destroyed
        /\ ~mounted' => \A e \in 1..Len(engines') : engines'[e].destroyed
        /\ \A e, f \in 1..Len(engines') :
              ~engines'[e].destroyed /\ ~engines'[f].destroyed => e = f
        /\ \A e \in 1..Len(engines') :
              IF engines'[e].destroyed
              THEN engines'[e].frames = 0 /\ ~engines'[e].subscribed
              ELSE engineRef' = [id |-> e]
        /\ lastOp'.ctl = "engine.tick" => ~engines[lastOp'.value].destroyed ]_vars

\* The source was switched under a playing engine: it is destroyed, its
\* successor is live
SwitchedWhilePlaying ==
    /\ mounted
    /\ Len(engines) = 2
    /\ engines[1].destroyed
    /\ engines[1].isPlaying
    /\ engineRef = [id |-> 2]
    /\ ~engines[2].destroyed
    /\ engines[2].subscribed
    /\ video.src = [url |-> "source"]

-----------------------------------------------------------------------------
(* C18 *)

\* C18: when the effects run after a change of editConfig alone, under an
\* engine, no engine is created, engineRef holds the same engine, still live
\* and subscribed, with the new segments; the element keeps its src and its
\* paused flag; the output position is what it was, or the new total
\* duration when it was beyond it.
HotSwap ==
    [][ ( /\ lastOp'.ctl = "preview.effects"
          /\ engineRef # Null
          /\ initDeps = InitDepsNow
          /\ updateDeps # UpdateDepsNow )
        => LET old == engines[engineRef.id]
               new == engines'[engineRef.id]
               before == OutputTime(old, video)
               after == OutputTime(new, video')
               total == TotalDuration(editConfig.segments)
           IN /\ Len(engines') = Len(engines)
              /\ engineRef' = engineRef
              /\ new.segments = editConfig.segments
              /\ ~new.destroyed /\ new.subscribed
              /\ new.isPlaying = old.isPlaying /\ new.frames = old.frames
              /\ video'.attached /\ video'.src = video.src /\ video'.paused = video.paused
              /\ 0 <= after /\ after <= total
              /\ after = Min(before, total) ]_vars

\* The last segment was deleted under a playing engine whose position was in
\* it: the effects have delivered the shorter configuration
SwappedWhilePlaying ==
    /\ lastOp.ctl = "preview.effects"
    /\ engineRef # Null
    /\ Len(engines) = 1
    /\ engines[1].isPlaying
    /\ Len(engines[1].segments) = 1
    /\ Len(editHistory) = 1
    /\ OutputTime(engines[1], video) = TotalDuration(editConfig.segments)
    /\ video.time > 0

-----------------------------------------------------------------------------
(* The backend: the project document, the upload trigger and the manual     *)
(* re-process endpoint.  Every await of a function is a step of its own.    *)

\* What the backend leaves alone
BackendUnchanged == UNCHANGED <<storeVars, _debounceTimer, _debounceSnapshot, annDrag,
                                clock, viewVars, playVars, saveVars, probe, pageVars,
                                previewVars, dragVars, run, log>>

\* An invocation at its first await
Invocation(fn, pc) == [fn |-> fn, pc |-> pc, allowed |-> FALSE, jobId |-> 0]

\* Invocation i goes on to its next await
Goes(i, pc) == invocations' = [invocations EXCEPT ![i].pc = pc]

\* A step of invocation i
BackendStep(i, name) ==
    /\ lastOp' = [Op(name, "backend", invocations[i].fn) EXCEPT !.value = i]
    /\ BackendUnchanged

\* NewProjectPage.handleUpload: updateProject(uid, projectId, {status: "uploaded", ...})
ClientMarksUploaded ==
    /\ project.status = "uploading"
    /\ project' = [project EXCEPT !.status = "uploaded"]
    /\ UNCHANGED <<invocations, pipelineCalls>>
    /\ lastOp' = Op("updateProject", "backend", "client")
    /\ BackendUnchanged

\* onVideoUploadTrigger: only a change of the status to "uploaded" goes on
StatusBecomesUploaded(before, after) == ~(before = "uploaded" \/ after # "uploaded")

\* The writes of the status that have been made: the client's, and the claim
StatusWrites ==
    (IF project.status # "uploading" THEN {<<"uploading", "uploaded">>} ELSE {})
    \cup (IF \E i \in 1..Len(invocations) :
                /\ invocations[i].fn = "onVideoUploadTrigger"
                /\ invocations[i].pc \notin {"claim", "skipped", "returned"}
          THEN {<<"uploaded", "transcribing">>} ELSE {})

\* onUpdate is delivered for a write, at least once
DeliverUpdate(before, after) ==
    /\ <<before, after>> \in StatusWrites
    /\ invocations' = Append(invocations,
                             Invocation("onVideoUploadTrigger",
                                        IF StatusBecomesUploaded(before, after)
                                        THEN "claim" ELSE "returned"))
    /\ UNCHANGED <<project, pipelineCalls>>
    /\ lastOp' = [Op("onUpdate", "backend", "onVideoUploadTrigger")
                    EXCEPT !.value = Len(invocations) + 1]
    /\ BackendUnchanged

\* Variant of the claim that does not look at the document
UploadClaimBlind(i) ==
    /\ i \in 1..Len(invocations)
    /\ invocations[i].fn = "onVideoUploadTrigger"
    /\ invocations[i].pc = "claim"
    /\ project' = [project EXCEPT !.status = "transcribing"]
    /\ Goes(i, "check")
    /\ UNCHANGED pipelineCalls
    /\ BackendStep(i, "claim")

\* db.runTransaction: the claim, atomic
UploadClaim(i) ==
    /\ i \in 1..Len(invocations)
    /\ invocations[i].fn = "onVideoUploadTrigger"
    /\ invocations[i].pc = "claim"
    /\ IF project.status # "uploaded" \/ project.modalJobId # 0
       THEN /\ Goes(i, "skipped")
            /\ UNCHANGED project
       ELSE /\ project' = [project EXCEPT !.status = "transcribing"]
            /\ Goes(i, "check")
    /\ UNCHANGED pipelineCalls
    /\ BackendStep(i, "claim")

\* Variant of the check that goes on to the pipeline whatever the answer
UploadCheckUnheeded(i, allowed) ==
    /\ i \in 1..Len(invocations)
    /\ invocations[i].fn = "onVideoUploadTrigger"
    /\ invocations[i].pc = "check"
    /\ invocations' = [invocations EXCEPT ![i].allowed = allowed, ![i].pc = "trigger"]
    /\ UNCHANGED <<project, pipelineCalls>>
    /\ BackendStep(i, "checkUsageLimits")

\* await checkUsageLimits(uid), with its answer
UploadCheck(i, allowed) ==
    /\ i \in 1..Len(invocations)
    /\ invocations[i].fn = "onVideoUploadTrigger"
    /\ invocations[i].pc = "check"
    /\ invocations' = [invocations EXCEPT ![i].allowed = allowed,
                                          ![i].pc = IF allowed THEN "trigger" ELSE "limit"]
    /\ UNCHANGED <<project, pipelineCalls>>
    /\ BackendStep(i, "checkUsageLimits")

\* not allowed: update({status: "failed", failReason: reason}); return
UploadLimit(i) ==
    /\ i \in 1..Len(invocations)
    /\ invocations[i].fn = "onVideoUploadTrigger"
    /\ invocations[i].pc = "limit"
    /\ project' = [project EXCEPT !.status = "failed", !.failReason = "limit"]
    /\ Goes(i, "limited")
    /\ UNCHANGED pipelineCalls
    /\ BackendStep(i, "limit")

\* await triggerModalPipeline(...): it answers with a job id, or it throws
Trigger(i, throws) ==
    /\ i \in 1..Len(invocations)
    /\ invocations[i].pc = "trigger"
    /\ pipelineCalls' = Append(pipelineCalls, i)
    /\ invocations' = [invocations EXCEPT ![i].jobId = Len(pipelineCalls) + 1,
                                          ![i].pc = IF throws THEN "catch" ELSE "record"]
    /\ UNCHANGED project
    /\ BackendStep(i, "triggerModalPipeline")

\* update({"processing.modalJobId": jobId})
RecordJob(i) ==
    /\ i \in 1..Len(invocations)
    /\ invocations[i].pc = "record"
    /\ project' = [project EXCEPT !.modalJobId = invocations[i].jobId]
    /\ Goes(i, "done")
    /\ UNCHANGED pipelineCalls
    /\ BackendStep(i, "record")

\* catch: update({status: "failed", failReason: error.message})
UploadCatch(i) ==
    /\ i \in 1..Len(invocations)
    /\ invocations[i].fn = "onVideoUploadTrigger"
    /\ invocations[i].pc = "catch"
    /\ project' = [project EXCEPT !.status = "failed", !.failReason = "error"]
    /\ Goes(i, "failed")
    /\ UNCHANGED pipelineCalls
    /\ BackendStep(i, "catch")

\* startProcessing is called: unauthenticated without a uid, else
\* projectRef.get() of the caller's project
CallStartProcessing(uid) ==
    /\ invocations' = Append(invocations,
                             Invocation("startProcessing",
                                        IF uid THEN "check" ELSE "unauthenticated"))
    /\ UNCHANGED <<project, pipelineCalls>>
    /\ lastOp' = [Op("call", "backend", "startProcessing")
                    EXCEPT !.value = Len(invocations) + 1]
    /\ BackendUnchanged

\* await checkUsageLimits(uid): resource-exhausted when not allowed
ManualCheck(i, allowed) ==
    /\ i \in 1..Len(invocations)
    /\ invocations[i].fn = "startProcessing"
    /\ invocations[i].pc = "check"
    /\ invocations' = [invocations EXCEPT ![i].allowed = allowed,
                                          ![i].pc = IF allowed THEN "reset"
                                                    ELSE "resource-exhausted"]
    /\ UNCHANGED <<project, pipelineCalls>>
    /\ BackendStep(i, "checkUsageLimits")

\* Reset and restart: update({status: "transcribing", failReason: null, ...})
ManualReset(i) ==
    /\ i \in 1..Len(invocations)
    /\ invocations[i].fn = "startProcessing"
    /\ invocations[i].pc = "reset"
    /\ project' = [project EXCEPT !.status = "transcribing", !.failReason = ""]
    /\ Goes(i, "trigger")
    /\ UNCHANGED pipelineCalls
    /\ BackendStep(i, "reset")

\* startProcessing has no catch: the error goes to the caller
ManualThrows(i) ==
    /\ i \in 1..Len(invocations)
    /\ invocations[i].fn = "startProcessing"
    /\ invocations[i].pc = "catch"
    /\ Goes(i, "internal")
    /\ UNCHANGED <<project, pipelineCalls>>
    /\ BackendStep(i, "throw")

-----------------------------------------------------------------------------
(* The time map applied to source times in removed regions                  *)

InitGap ==
    /\ Fresh
    /\ probe \in {x \in TimeMapInputs : ~Kept(x.segments, x.s)}

NextGap ==
    \/ TimeMapForth
    \/ TimeMapBack

SpecGap == InitGap /\ [][NextGap]_vars

-----------------------------------------------------------------------------
(* C21 *)

\* Is segment p the one that ends nearest before s?
EndsNearestBefore(segments, p, s) ==
    /\ p \in 1..Len(segments)
    /\ segments[p].sourceEnd < s
    /\ \A j \in 1..Len(segments) :
          segments[j].sourceEnd < s => segments[j].sourceEnd <= segments[p].sourceEnd

\* C21 as stated: for every source time s that no segment contains, some
\* segment ends nearest before s, and sourceToOutput(s) is the output
\* position of its end.
GapPolicyEverywhere ==
    (probe # Null /\ probe.stage >= 1)
        => \E p \in 1..Len(probe.segments) :
              /\ EndsNearestBefore(probe.segments, p, probe.s)
              /\ probe.o = TotalDuration(SubSeq(probe.segments, 1, p))

\* C21: for every source time s that no segment contains and that lies after
\* the end of some segment, sourceToOutput(s) is the output position of the
\* end of the segment that ends nearest before s, a time of the output
\* timeline; a source time before every segment has no preceding segment.
GapPolicy ==
    (probe # Null /\ probe.stage >= 1
       /\ \E k \in 1..Len(probe.segments) : probe.segments[k].sourceEnd < probe.s)
        => /\ \E p \in 1..Len(probe.segments) :
                 /\ EndsNearestBefore(probe.segments, p, probe.s)
                 /\ probe.o = TotalDuration(SubSeq(probe.segments, 1, p))
           /\ 0 < probe.o
           /\ probe.o <= TotalDuration(probe.segments)

\* A source time in the cut between two segments that are not in source
\* order in the array: the segment before the cut is the last of the array,
\* the result is the end of the timeline
GapAfterLastOfArray ==
    /\ probe # Null
    /\ probe.stage = 1
    /\ Len(probe.segments) = 2
    /\ probe.segments[2].sourceEnd < probe.s
    /\ probe.s < probe.segments[1].sourceStart
    /\ probe.o = TotalDuration(probe.segments)

-----------------------------------------------------------------------------
(* A project is uploaded: the trigger is delivered more than once, the user *)
(* asks for a re-process, the limit check answers either way, the pipeline  *)
(* call may throw                                                           *)

NextBackend ==
    \/ ClientMarksUploaded
    \/ Len(invocations) < MaxInvocations
          /\ \E w \in StatusWrites : DeliverUpdate(w[1], w[2])
    \/ Len(invocations) < MaxInvocations
          /\ \E uid \in BOOLEAN : CallStartProcessing(uid)
    \/ \E i \in 1..Len(invocations) : UploadClaim(i)
    \/ \E i \in 1..Len(invocations), allowed \in BOOLEAN : UploadCheck(i, allowed)
    \/ \E i \in 1..Len(invocations) : UploadLimit(i)
    \/ \E i \in 1..Len(invocations), throws \in BOOLEAN : Trigger(i, throws)
    \/ \E i \in 1..Len(invocations) : RecordJob(i)
    \/ \E i \in 1..Len(invocations) : UploadCatch(i)
    \/ \E i \in 1..Len(invocations), allowed \in BOOLEAN : ManualCheck(i, allowed)
    \/ \E i \in 1..Len(invocations) : ManualReset(i)
    \/ \E i \in 1..Len(invocations) : ManualThrows(i)

SpecBackend == Init /\ [][NextBackend]_vars

-----------------------------------------------------------------------------
(* C22 *)

\* C22: triggerModalPipeline is called only by an invocation whose limit
\* check has answered allowed; an invocation whose check has answered not
\* allowed never calls it: the upload trigger goes on to mark the project
\* failed with the reason, startProcessing ends with resource-exhausted and
\* leaves the project as it is.
LimitsBeforePipeline ==
    [][ /\ \A i \in 1..Len(invocations') :
              /\ i \in {pipelineCalls'[k] : k \in 1..Len(pipelineCalls')}
                    => invocations'[i].allowed
              /\ invocations'[i].pc \in {"limit", "limited", "resource-exhausted"}
                    => /\ ~invocations'[i].allowed
                       /\ i \notin {pipelineCalls'[k] : k \in 1..Len(pipelineCalls')}
        /\ (lastOp'.op = "checkUsageLimits" /\ ~invocations'[lastOp'.value].allowed)
              => /\ UNCHANGED <<project, pipelineCalls>>
                 /\ invocations'[lastOp'.value].pc
                       = IF lastOp'.ctl = "startProcessing" THEN "resource-exhausted"
                         ELSE "limit"
        /\ lastOp'.op = "limit"
              => /\ project'.status = "failed"
                 /\ project'.failReason = "limit"
                 /\ UNCHANGED pipelineCalls
                 /\ invocations'[lastOp'.value].pc = "limited" ]_vars

\* The upload trigger has marked the project failed for the limit, a manual
\* call has been rejected with resource-exhausted, and the pipeline has not
\* been called
RefusedTwice ==
    /\ project.status = "failed"
    /\ project.failReason = "limit"
    /\ \E i \in 1..Len(invocations) : invocations[i].pc = "limited"
    /\ \E i \in 1..Len(invocations) : invocations[i].pc = "resource-exhausted"
    /\ pipelineCalls = <<>>

-----------------------------------------------------------------------------
(* C26 *)

\* C26: of the invocations of the upload trigger for the project's upload, at
\* most one claims it (moves it from "uploaded" to "transcribing") and only
\* that one calls triggerModalPipeline, at most once; every other one ends
\* without a write and without a call; when the claimant's call throws, its
\* catch marks the project failed and calls nothing.
ClaimedOnce ==
    [][ /\ Cardinality({i \in 1..Len(invocations') :
                           /\ invocations'[i].fn = "onVideoUploadTrigger"
                           /\ invocations'[i].pc \notin {"claim", "skipped", "returned"}})
              <= 1
        /\ Cardinality({k \in 1..Len(pipelineCalls') :
                           invocations'[pipelineCalls'[k]].fn = "onVideoUploadTrigger"})
              <= 1
        /\ (lastOp'.op = "claim" /\ invocations'[lastOp'.value].pc = "check")
              => project.status = "uploaded" /\ project'.status = "transcribing"
        /\ (lastOp'.op = "claim" /\ invocations'[lastOp'.value].pc = "skipped")
              => UNCHANGED <<project, pipelineCalls>>
        /\ lastOp'.op = "catch"
              => /\ project'.status = "failed"
                 /\ UNCHANGED pipelineCalls ]_vars

\* Three deliveries of the upload: the first has claimed the project, its
\* pipeline call has thrown and its catch has marked the project failed; the
\* two others have been skipped
FailedClaimNotRepeated ==
    /\ Len(invocations) = 3
    /\ invocations[1].pc = "failed"
    /\ invocations[2].pc = "skipped"
    /\ invocations[3].pc = "skipped"
    /\ lastOp.op = "claim"
    /\ project.status = "failed"
    /\ Len(pipelineCalls) = 1

-----------------------------------------------------------------------------
(* C23 *)

\* Nothing of the auto-save is pending: the effect has run for the current
\* isDirty and editConfig, no timeout is set, no request is awaited
SaveAtRest ==
    /\ saveDeps = [isDirty |-> isDirty, editConfig |-> editConfig]
    /\ saveTimerRef = Null
    /\ saveRequests = <<>>

\* C23 as stated, for the states in which nothing is pending: when a save
\* has been made and the store reports isDirty = FALSE, the configuration
\* last written to the clip document is the current editConfig.
SavedIsCurrent ==
    (lastSavedAt # Null /\ ~isDirty /\ SaveAtRest)
        => persisted = [editConfig |-> editConfig]

-----------------------------------------------------------------------------
(* C24 *)

\* C24 as stated: redo while a gesture commit is pending (snapshot S) puts S
\* on the undo stack before it proceeds, on top of the entries that were
\* there, and empties the pending slot, whether or not the redo stack has an
\* entry to take.
RedoFlushesPendingGesture ==
    [][ (lastOp'.kind = "redo" /\ _debounceSnapshot # Null)
            => /\ _debounceSnapshot' = Null
               /\ Len(editHistory') > Len(editHistory)
               /\ editHistory'[Len(editHistory) + 1] = _debounceSnapshot ]_vars

-----------------------------------------------------------------------------
(* C25 *)

\* A short session of interleaved edits: the panel's slider (debounced), the
\* popover's slider (a discrete edit each time), the timer, undo; no redo
NextInterleave ==
    \/ LoadClip
    \/ ClickElement("segment", 2)
    \/ Shallow /\ \E v \in DurationSteps : PanelDurationSlider(v)
    \/ Shallow /\ \E v \in DurationSteps : PopoverSetDuration(2, v)
    \/ DebounceTimerFires
    \/ undo

SpecInterleave == Init /\ [][NextInterleave]_vars

\* C25 as stated, at the end of the walk: in a session of gesture updates,
\* discrete edits, timer expiries and undos, with fewer than MAX_HISTORY
\* entries, when the undo stack is empty and no gesture commit is pending
\* the configuration is the one initialize() loaded.
UndoEndsAtInitial ==
    (editConfig # Null /\ editHistory = <<>> /\ _debounceSnapshot = Null)
        => editConfig = clip.editConfig

-----------------------------------------------------------------------------
(* C27 *)

\* The subscriber of the preview publishes the output time of a paused engine
\* after a seek: setPlaybackState(false, t, totalDuration)
PlayheadAt(t) ==
    /\ editConfig # Null
    /\ setPlaybackState(FALSE, t, TotalDuration(editConfig.segments))
    /\ UNCHANGED <<storeVars, _debounceTimer, _debounceSnapshot, annDrag, clock,
                   viewVars, saveVars, outside, previewVars, dragVars>>
    /\ Did(Op("setPlaybackState", "playback", "preview"))

\* A short session of splits: the playhead anywhere on the output timeline,
\* the toolbar button and the S key, undo, redo
NextSplit ==
    \/ LoadClip
    \/ /\ editConfig # Null
       /\ \E t \in 0..TotalDuration(editConfig.segments) : PlayheadAt(t)
    \/ Brief /\ ClockLow /\ SplitAtPlayhead(currentTime)
    \/ Brief /\ ClockLow /\ KeySplit(currentTime)
    \/ undo
    \/ redo

SpecSplit == Init /\ [][NextSplit]_vars

\* Does the closed output range of the i-th segment hold t?
InOutputRange(segments, i, t) ==
    /\ OutputStart(segments, i) <= t
    /\ t <= OutputStart(segments, i) + (segments[i].sourceEnd - segments[i].sourceStart)

\* C27: with the playhead at any output time t of [0, totalDuration] the loop
\* of the toolbar button and of the S key finds a segment; a split made by
\* either of them is requested at sourceStart + (t - outputStart) of a
\* segment whose output range holds t, the same for both in the same state,
\* and when t is strictly inside that range the segment is replaced by two
\* that meet at that source time, so the count grows by one.
SplitWherePlayheadIs ==
    /\ [](editConfig # Null =>
            \A t \in 0..TotalDuration(editConfig.segments) :
                SegmentAtPlayhead(editConfig.segments, t, 0) # Null)
    /\ [][ (lastOp'.op = "splitSegment" /\ lastOp'.ctl \in {"toolbar", "key"})
            => LET segs == editConfig.segments
                   t == currentTime
               IN \E i \in 1..Len(segs) :
                     LET start == OutputStart(segs, i)
                         m == segs[i].sourceStart + (t - start)
                     IN /\ InOutputRange(segs, i, t)
                        /\ lastOp'.value = m
                        /\ (start < t /\ t < start + (segs[i].sourceEnd - segs[i].sourceStart))
                             => /\ Len(editConfig'.segments) = Len(segs) + 1
                                /\ editConfig'.segments[i].id = segs[i].id
                                /\ editConfig'.segments[i].sourceEnd = m
                                /\ editConfig'.segments[i + 1].sourceStart = m
                                /\ editConfig'.segments[i + 1].sourceEnd = segs[i].sourceEnd ]_vars

\* The S key has split the second segment, whose output range starts before
\* its source range, strictly inside
SplitInSecondSegment ==
    /\ lastOp.op = "splitSegment"
    /\ lastOp.ctl = "key"
    /\ ~lastOp.invalid
    /\ Len(editConfig.segments) = 3
    /\ editConfig.segments[1] = PipelineConfig.segments[1]
    /\ lastOp.value = editConfig.segments[3].sourceStart

-----------------------------------------------------------------------------
(* The editor page: the route, the snapshots of the clip document, the load *)

\* Snapshot callbacks awaiting their fetches never exceed this
MaxLoads == 2

\* A second clip of the same project
OtherClip ==
    [id |-> 2, startTime |-> 20, endTime |-> 28,
     editConfig |-> [PipelineConfig EXCEPT !.captions = [style |-> "minimal"]],
     sourceVideoUrl |-> "source", proxyVideoUrl |-> "proxy"]

\* The clip documents of the project
Library == Clips \cup {OtherClip}

\* What the steps of the load effect leave alone besides the store
PageUnchanged == UNCHANGED <<_debounceTimer, _debounceSnapshot, annDrag, clock, viewVars,
                             playVars, saveVars, probe, backend, previewVars, dragVars>>

\* The editor is shown: the page is mounted, a callback has ended with
\* setLoading(false), the store holds a configuration
Shown == page # Null /\ ~page.loading /\ editConfig # Null

\* onSnapshot delivers the clip document to the callback.  With the store
\* empty the callback starts its fetches (getDoc, getDownloadURL) and will
\* call initialize() when they are done; otherwise it ends with
\* setLoading(false).
SnapshotArrives ==
    /\ page # Null
    /\ \E c \in Library :
          /\ c.id = page.clipId
          /\ IF clip = Null
             THEN /\ Len(loads) < MaxLoads
                  /\ loads' = Append(loads, [clip |-> c, route |-> page.clipId])
                  /\ UNCHANGED page
             ELSE /\ page' = [page EXCEPT !.loading = FALSE]
                  /\ UNCHANGED loads
    /\ UNCHANGED storeVars
    /\ PageUnchanged
    /\ lastOp' = Op("onSnapshot", "ui", "page")
    /\ UNCHANGED <<run, log>>

\* The fetches of the i-th callback under way are done: initialize() with the
\* clipData of its snapshot, then setLoading(false) on the page that
\* subscribed, if it is still mounted
LoadCompletes(i) ==
    /\ i \in 1..Len(loads)
    /\ initialize(loads[i].clip)
    /\ loads' = Without(loads, i)
    /\ page' = IF page # Null /\ page.clipId = loads[i].route
               THEN [page EXCEPT !.loading = FALSE]
               ELSE page

\* One load of the editor: snapshots of the clip document at any moment, the
\* fetches ending in any order, the transition duration changed by the
\* popover and by the slider of the panel, the timer, undo
NextLoad ==
    \/ SnapshotArrives
    \/ \E i \in 1..MaxLoads : LoadCompletes(i)
    \/ Shown /\ ClickElement("segment", 2)
    \/ Shown /\ Brief /\ \E v \in DurationSteps : PanelDurationSlider(v)
    \/ Shown /\ Brief /\ \E v \in DurationSteps : PopoverSetDuration(2, v)
    \/ DebounceTimerFires
    \/ Shown /\ undo

SpecLoad == Init /\ [][NextLoad]_vars

-----------------------------------------------------------------------------
(* C28 *)

\* C28 as stated: in one load of the editor, whatever the order of the
\* snapshot callbacks and of their fetches, initialize() is called at most
\* once: every call finds the store empty, so none resets a configuration or
\* a stack the user has edited.
InitializedOnce ==
    [][ lastOp'.op = "initialize" => clip = Null ]_vars

-----------------------------------------------------------------------------
(* C30 *)

\* C30 as stated: initialize() leaves the undo and redo stacks empty and no
\* gesture commit pending, and the step that follows it, unless it is an
\* edit, leaves the stacks empty: a timer armed before initialize() pushes
\* nothing into the new history.
InitializeStartsClean ==
    [][ /\ lastOp'.op = "initialize"
            => /\ editHistory' = <<>>
               /\ editFuture' = <<>>
               /\ _debounceSnapshot' = Null
        /\ (lastOp.op = "initialize" /\ lastOp'.kind \notin {"discrete", "gesture", "init"})
            => /\ editHistory' = <<>>
               /\ editFuture' = <<>> ]_vars

-----------------------------------------------------------------------------
(* C29 *)

\* The editor page is left: the cleanups of its effects unsubscribe from the
\* clip document and clear the auto-save timeout.  The store is a module of
\* its own and keeps its state; callbacks already awaiting go on.
CloseEditor ==
    /\ page # Null
    /\ page' = Null
    /\ saveTimerRef' = Null
    /\ saveDeps' = Null
    /\ UNCHANGED <<loads, storeVars, _debounceTimer, _debounceSnapshot, annDrag, clock,
                   viewVars, playVars, isSaving, lastSavedAt, saveRequests, consoleErrors,
                   persisted, probe, backend, previewVars, dragVars>>
    /\ lastOp' = Op("unmount", "ui", "page")
    /\ UNCHANGED <<run, log>>

\* The editor page is opened on the route of the clip with this id: the load
\* effect subscribes to its document
OpenEditor(id) ==
    /\ page = Null
    /\ page' = [clipId |-> id, loading |-> TRUE]
    /\ UNCHANGED <<loads, storeVars>>
    /\ PageUnchanged
    /\ lastOp' = Op("mount", "ui", "page")
    /\ UNCHANGED <<run, log>>

\* A session over two clips: the editor opened on the first clip, edits in
\* the popover, auto-save, the page left and the editor opened on the second
NextSession ==
    \/ SnapshotArrives
    \/ \E i \in 1..MaxLoads : LoadCompletes(i)
    \/ Shown /\ Brief /\ \E v \in DurationSteps : PopoverSetDuration(2, v)
    \/ page # Null /\ AutoSaveEffect
    \/ /\ page # Null
       /\ Len(saveRequests) < MaxRequests
       /\ saveDeps = [isDirty |-> isDirty, editConfig |-> editConfig]
       /\ SaveTimerFires
    \/ \E i \in 1..MaxRequests : SaveSucceeds(i)
    \/ page # Null /\ page.clipId \in {c.id : c \in Clips} /\ CloseEditor
    \/ OpenEditor(OtherClip.id)

SpecSession == Init /\ [][NextSession]_vars

\* C29 as stated: whenever the editor is shown the store holds the clip of
\* the page's route, and whenever the auto-save timeout sends updateClip for
\* the page's clipId the store holds that clip.
SessionIsOfShownClip ==
    /\ [](Shown => clip.id = page.clipId)
    /\ [][ lastOp'.op = "markSaving" => clip.id = page.clipId ]_vars

====
